---- MODULE Spec2Model ----
(***************************************************************************)
(* Orchestration core of the assistant: the per-adapter RateLimitTracker,  *)
(* the provider adapters with their retry policy, the ModelRegistry and    *)
(* ModelRouter (src/model_layer.py), and the orchestrator quota tracker    *)
(* and command dispatcher of PraxisCore (src/main.py, src/brain.py).       *)
(*                                                                         *)
(* Time is the wall clock in whole seconds (time.time() and                *)
(* datetime.now(timezone.utc) read the same clock).  Each component has    *)
(* its own specification over the shared variables; a specification        *)
(* leaves the variables of the other components unchanged.                 *)
(***************************************************************************)
EXTENDS Integers, Sequences, FiniteSets, TLC

\* ------------------------------------------------------------------------
\* Bounds of the model
\* ------------------------------------------------------------------------
TickSeconds == 20
\* granularity of the clock steps taken by the environment
MaxTime == 140
\* the clock stops advancing here
MaxRecords == 3
\* add_request_timestamp calls per behaviour
MaxCap == 2
\* largest rate_limit_rpm a tracker is constructed with
MaxCalls == 2
\* generate calls per behaviour
MaxModels == 2
\* descriptors in models.yaml
MaxAdapters == 2
\* adapters the router chooses among
RouterTickSeconds == 30
\* clock steps between router calls
MaxCeiling == 2
\* largest RPM / TPM / RPD ceiling configured
MaxDays == 1
\* midnights (UTC) the clock passes
MaxTurns == 2
\* process_command_text calls per behaviour
MaxSpoken == 3
\* messages speak() collects between two commands
MaxDispatchTime == 80
\* the clock stops here while commands are dispatched

\* ------------------------------------------------------------------------
\* State
\* ------------------------------------------------------------------------
VARIABLES
    now,              \* the wall clock, seconds
    \* RateLimitTracker
    rate_limit_rpm,   \* the cap passed to __init__
    requests,         \* RateLimitTracker.requests, the deque, oldest first
    recorded,         \* history: every timestamp given to add_request_timestamp
    limit_exceeded,   \* result of the last is_limit_exceeded call ("none" before)
    wait_time,        \* result of the last get_wait_time call (-1 before)
    everExceeded,     \* history: some is_limit_exceeded call returned true
    \* one adapter and the generate call in progress on it
    adapter_class,    \* the class of the adapter ("none": no adapter constructed)
    client,           \* self.client is set (API key present, server reachable)
    tenacity,         \* the tenacity library was importable (retry is not None)
    gen_pc,           \* position of the generate call: idle, throttle, attempt, backoff, done
    attempt_log,      \* provider outcomes of the attempts of the current call, in order
    sleep_log,        \* sleeps of the current call, <<kind, seconds>>, in order
    gen_result,       \* what the current call returned or raised
    gen_calls,        \* history: number of generate calls made
    \* ModelRegistry and ModelRouter
    models_config,    \* ModelRegistry.models_config, the descriptors in file order
    installed,        \* the provider libraries that were importable
    adapters,         \* ModelRegistry.adapters: model_id -> adapter
    adapter_order,    \* insertion order of the keys of ModelRegistry.adapters
    registry_ready,   \* _initialize_all_adapters has run
    selected,         \* <<task, result>> of the last select_model call
    last_op,          \* history: the last operation applied to the registry
    \* PraxisCore: quota tracker
    rpm_limit,        \* GEMINI_1_5_FLASH_RPM as configured
    tpm_limit,        \* GEMINI_1_5_FLASH_TPM as configured
    rpd_limit,        \* GEMINI_1_5_FLASH_RPD as configured
    request_timestamps_rpm,  \* deque of request times, oldest first
    token_usage_tpm,         \* deque of <<time, tokens>>, oldest first
    daily_request_count,
    current_day_for_rpd,
    today,            \* the UTC date of the wall clock, as a day number
    usage_log,        \* history: the time of every _record_api_usage call
    can_request,      \* what the last _can_make_request call returned
    \* PraxisCore: command dispatcher
    session_ready,    \* skill_context and current_user_name are set
    is_running,
    is_muted,         \* SkillContext.is_muted
    disp_pc,          \* position of process_command_text: Idle, Thinking, Calling
    clean_input,      \* the wake-stripped input of the turn in progress
    current_command_spoken_parts,  \* what speak() said during the current turn
    spoken_messages_during_mute,   \* what SkillContext.speak captured while muted
    praxis_state,     \* the state last reported to the GUI status callback
    turn,             \* history: what the turn in progress or just ended did
    turns,            \* history: number of turns started
    \* PraxisCore: confirmation, skill invocation, inactivity
    pending_confirmation,  \* <<>> (None) or <<original_input>> of a web_search_fallback
    last_interaction_time,
    invocations,      \* history: every skill handler invoked, in order
    escaped,          \* history: the entry point an exception propagated out of ("none")
    responses,        \* history: the answers given to handle_gui_confirmation, in order
    inact_pc,         \* position of the handle_inactivity thread: Idle, Engaging
    inact_time,       \* current_time as read by the handle_inactivity call in progress
    \* text-to-speech queue, worker thread and shutdown
    engine_available, \* TTS_ENGINE_AVAILABLE and engine
    tts_queue,        \* tts_queue, oldest first; an entry is <<put number, text>>
    unfinished_tasks, \* the queue's count of items put and not yet task_done
    put_count,        \* history: number of puts made on tts_queue
    worker_pc,        \* position of tts_worker: NotStarted, Waiting, Speaking, Finished
    worker_item,      \* the entry the worker took and is speaking (<<>>: none)
    taken,            \* history: the entries tts_queue.get() returned, in order
    spoken,           \* history: the entries engine.say / runAndWait spoke, in order
    shutdown_pc,      \* position of shutdown(): NotCalled, Signalled, QueueJoin,
                      \* ThreadJoin, Returned
    \* brain.strip_wake_words
    wake_input,       \* the command given to strip_wake_words, a sequence of characters
    wake_result,      \* what the call returned, <<text, flag>> (<<>>: not called yet)
    \* knowledge_base: the user_profile_items table
    user_profile_items,  \* the rows of the table, a set of records
    kb_result,        \* the last call on the table: its arguments and what it returned
    kb_log,           \* history: the store and delete calls that returned True, in order
    \* abilities/emotion_skill: module state
    current_emotional_sophistication_level,
    interaction_counter,
    emotion_calls,    \* history: the calls made, "express" or "force", in order
    emotion_spoken,   \* what the last call passed to context.speak, in order
    \* PraxisCore: voice input
    sr_available,     \* SPEECH_RECOGNITION_AVAILABLE and recognizer and microphone
    input_mode,       \* input_mode_config['mode']
    listen_threads,   \* number of _listen_in_thread threads started and not yet returned
    voice_spoken,     \* what the last voice call or thread step spoke, in order
    heard,            \* history: the texts handed to process_command_text, in order
    \* PraxisCore: process_command_text run on several threads
    thread_pc,        \* position of each thread that runs process_command_text
    admitted_log,     \* history: the times at which _can_make_request admitted a turn
    \* requests sent to the LLM provider
    prov_pc,          \* position of the thread that works for the user: idle, calling, handling
    provider_log,     \* history: the times at which a request was sent to the provider
    \* knowledge_base: the skill_usage_metrics table
    skill_usage_metrics,  \* the rows of the table, a set of records
    metric_calls      \* history: number of record_skill_invocation / record_user_feedback calls

trackerVars == <<rate_limit_rpm, requests, recorded, limit_exceeded, wait_time, everExceeded>>
adapterVars == <<adapter_class, client, tenacity, gen_pc, attempt_log, sleep_log, gen_result,
                 gen_calls>>
registryVars == <<models_config, installed, adapters, adapter_order, registry_ready, selected, last_op>>
quotaVars == <<rpm_limit, tpm_limit, rpd_limit, request_timestamps_rpm, token_usage_tpm,
               daily_request_count, current_day_for_rpd, today, usage_log, can_request>>
dispatchVars == <<session_ready, is_running, is_muted, disp_pc, clean_input,
                  current_command_spoken_parts, spoken_messages_during_mute,
                  praxis_state, turn, turns>>
confirmVars == <<pending_confirmation, last_interaction_time, invocations, escaped,
                 responses, inact_pc, inact_time>>
queueVars == <<tts_queue, unfinished_tasks, put_count>>
workerVars == <<engine_available, worker_pc, worker_item, taken, spoken, shutdown_pc>>
speechVars == <<queueVars, workerVars>>
wakeVars == <<wake_input, wake_result>>
kbVars == <<user_profile_items, kb_result, kb_log>>
emotionVars == <<current_emotional_sophistication_level, interaction_counter, emotion_calls,
                 emotion_spoken>>
voiceVars == <<sr_available, input_mode, listen_threads, voice_spoken, heard>>
raceVars == <<thread_pc, admitted_log>>
provVars == <<prov_pc, provider_log>>
metricVars == <<skill_usage_metrics, metric_calls>>
lateVars == <<raceVars, provVars, metricVars>>
otherVars == <<wakeVars, kbVars, emotionVars, voiceVars, lateVars>>
vars == <<now, trackerVars, adapterVars, registryVars, quotaVars, dispatchVars, confirmVars,
          speechVars, otherVars>>

\* the variables a component's specification leaves alone
notTracker == <<adapterVars, registryVars, quotaVars, dispatchVars, confirmVars, speechVars,
               otherVars>>
notAdapter == <<registryVars, quotaVars, dispatchVars, confirmVars, speechVars, otherVars>>
notRegistry == <<trackerVars, adapterVars, quotaVars, dispatchVars, confirmVars, speechVars,
                otherVars>>
notPraxis == <<trackerVars, adapterVars, registryVars, otherVars>>
\* the variables of PraxisCore and the model layer
notOthers == <<trackerVars, adapterVars, registryVars, quotaVars, dispatchVars, confirmVars,
               speechVars>>
\* the variables a turn of the dispatcher leaves alone besides those
notTurn == <<pending_confirmation, invocations, escaped, responses, inact_pc, inact_time,
             workerVars>>

\* ------------------------------------------------------------------------
\* Helpers
\* ------------------------------------------------------------------------
Last(s) == s[Len(s)]

Max(a, b) == IF a >= b THEN a ELSE b

\* ------------------------------------------------------------------------
\* RateLimitTracker (src/model_layer.py:47-79)
\* ------------------------------------------------------------------------
time_window_seconds == 60

\* while self.requests and self.requests[0] <= current_time - window: popleft()
RECURSIVE PruneOldTimestampsLt(_, _)
PruneOldTimestampsLt(reqs, current_time) ==
    IF reqs # <<>> /\ reqs[1] < current_time - time_window_seconds
    THEN PruneOldTimestampsLt(Tail(reqs), current_time)
    ELSE reqs

\* a pruning that drops the oldest timestamp only, an if in place of the while
PruneOldestOnly(reqs, current_time) ==
    IF reqs # <<>> /\ reqs[1] <= current_time - time_window_seconds
    THEN Tail(reqs)
    ELSE reqs

RECURSIVE PruneLoop(_, _)
PruneLoop(reqs, current_time) ==
    IF reqs # <<>> /\ reqs[1] <= current_time - time_window_seconds
    THEN PruneLoop(Tail(reqs), current_time)
    ELSE reqs

PruneOldTimestamps(reqs, current_time) == PruneLoop(reqs, current_time)

\* len(self.requests) >= self.rate_limit_rpm, where __init__ turns a cap <= 0
\* into float('inf'), which no length reaches
AtOrOverLimit(n, rpm) == rpm > 0 /\ n >= rpm

\* the value is_limit_exceeded(current_time) returns
LimitExceeded(reqs, rpm, current_time) ==
    AtOrOverLimit(Len(PruneOldTimestamps(reqs, current_time)), rpm)

\* the value get_wait_time(current_time) returns
WaitTime(reqs, rpm, current_time) ==
    LET pruned == PruneOldTimestamps(reqs, current_time) IN
    IF ~AtOrOverLimit(Len(pruned), rpm) THEN 0
    ELSE IF pruned # <<>>
         THEN Max(0, (pruned[1] + time_window_seconds) - current_time)
         ELSE 0

TrackerInit ==
    /\ rate_limit_rpm \in 0..MaxCap
    /\ requests = <<>>
    /\ recorded = <<>>
    /\ limit_exceeded = "none"
    /\ wait_time = -1
    /\ everExceeded = FALSE

\* the components at rest, for the specifications that do not exercise them
AdapterIdle ==
    /\ adapter_class = "none"
    /\ client = FALSE
    /\ tenacity = TRUE
    /\ gen_pc = "idle"
    /\ attempt_log = <<>>
    /\ sleep_log = <<>>
    /\ gen_result = [status |-> "none"]
    /\ gen_calls = 0

RegistryIdle ==
    /\ models_config = <<>>
    /\ installed = {}
    /\ adapters = <<>>
    /\ adapter_order = <<>>
    /\ registry_ready = FALSE
    /\ selected = <<"none", "None">>
    /\ last_op = "none"

QuotaIdle ==
    /\ rpm_limit = 1
    /\ tpm_limit = 1
    /\ rpd_limit = 1
    /\ request_timestamps_rpm = <<>>
    /\ token_usage_tpm = <<>>
    /\ daily_request_count = 0
    /\ current_day_for_rpd = 0
    /\ today = 0
    /\ usage_log = <<>>
    /\ can_request = <<>>

\* history of a turn: how it ended, what the gate saw and what it touched
NoTurn == [outcome |-> "none", over_ceiling |-> FALSE, can_request |-> <<>>,
           muted |-> FALSE, usage_recorded |-> FALSE,
           model_calls |-> 0, interactions_logged |-> 0, result |-> <<>>]

DispatchIdle ==
    /\ session_ready = FALSE
    /\ is_running = TRUE
    /\ is_muted = FALSE
    /\ disp_pc = "Idle"
    /\ clean_input = ""
    /\ current_command_spoken_parts = <<>>
    /\ spoken_messages_during_mute = <<>>
    /\ praxis_state = "Idle"
    /\ turn = NoTurn
    /\ turns = 0

\* PraxisCore.__init__, lines 384-386: no confirmation pending, the timer started
ConfirmIdle ==
    /\ pending_confirmation = <<>>
    /\ last_interaction_time = 0
    /\ invocations = <<>>
    /\ escaped = "none"
    /\ responses = <<>>
    /\ inact_pc = "Idle"
    /\ inact_time = 0

\* lines 32-43, 51-53: the engine failed to initialise, the queue is empty and
\* no worker thread was started
SpeechIdle ==
    /\ engine_available = FALSE
    /\ tts_queue = <<>>
    /\ unfinished_tasks = 0
    /\ put_count = 0
    /\ worker_pc = "NotStarted"
    /\ worker_item = <<>>
    /\ taken = <<>>
    /\ spoken = <<>>
    /\ shutdown_pc = "NotCalled"

WakeIdle == wake_input = <<>> /\ wake_result = <<>>

KbIdle == user_profile_items = {} /\ kb_result = <<>> /\ kb_log = <<>>

\* emotion_skill.py, lines 7-10
EmotionIdle ==
    /\ current_emotional_sophistication_level = 1
    /\ interaction_counter = 0
    /\ emotion_calls = <<>>
    /\ emotion_spoken = <<>>

\* no speech recognition: main.py, lines 346-348, leaves the mode at text
VoiceIdle ==
    /\ sr_available = FALSE
    /\ input_mode = "text"
    /\ listen_threads = 0
    /\ voice_spoken = <<>>
    /\ heard = <<>>

\* the threads that run process_command_text (gui.py:303, main.py:853)
Threads == {"text", "voice"}

\* no thread is inside process_command_text
RaceIdle == thread_pc = [t \in Threads |-> "idle"] /\ admitted_log = <<>>

\* no request has been sent to the provider
ProvIdle == prov_pc = "idle" /\ provider_log = <<>>

\* init_db(): the table is created empty
MetricsIdle == skill_usage_metrics = {} /\ metric_calls = 0

LateIdle == RaceIdle /\ ProvIdle /\ MetricsIdle

\* the library functions, stores and voice input, not in use
OthersIdle ==
    /\ WakeIdle /\ KbIdle /\ EmotionIdle /\ VoiceIdle /\ LateIdle

TrackerIdle ==
    /\ rate_limit_rpm = 0
    /\ requests = <<>>
    /\ recorded = <<>>
    /\ limit_exceeded = "none"
    /\ wait_time = -1
    /\ everExceeded = FALSE

\* PraxisCore and the model layer at rest, for the specifications of the
\* library functions
ProgramIdle ==
    /\ TrackerIdle /\ AdapterIdle /\ RegistryIdle /\ QuotaIdle /\ DispatchIdle
    /\ ConfirmIdle /\ SpeechIdle

InitTracker ==
    /\ now = 0
    /\ ConfirmIdle /\ SpeechIdle /\ OthersIdle
    /\ TrackerInit
    /\ AdapterIdle /\ RegistryIdle /\ QuotaIdle /\ DispatchIdle

\* add_request_timestamp(now): append first, then prune
AddRequestTimestamp ==
    /\ Len(recorded) < MaxRecords
    /\ requests' = PruneOldTimestamps(Append(requests, now), now)
    /\ recorded' = Append(recorded, now)
    /\ UNCHANGED <<now, rate_limit_rpm, limit_exceeded, wait_time, everExceeded, notTracker>>

\* is_limit_exceeded(now): prunes the deque, then compares its length to the cap
IsLimitExceeded ==
    /\ requests' = PruneOldTimestamps(requests, now)
    /\ limit_exceeded' = LimitExceeded(requests, rate_limit_rpm, now)
    /\ everExceeded' = (everExceeded \/ limit_exceeded')
    /\ UNCHANGED <<now, rate_limit_rpm, recorded, wait_time, notTracker>>

\* get_wait_time(now): prunes the deque, then reports the wait
GetWaitTime ==
    /\ requests' = PruneOldTimestamps(requests, now)
    /\ wait_time' = WaitTime(requests, rate_limit_rpm, now)
    /\ UNCHANGED <<now, rate_limit_rpm, recorded, limit_exceeded, everExceeded, notTracker>>

\* the clock advances
Tick ==
    /\ now + TickSeconds <= MaxTime
    /\ now' = now + TickSeconds
    /\ UNCHANGED <<trackerVars, notTracker>>

TrackerNext ==
    \/ AddRequestTimestamp
    \/ IsLimitExceeded
    \/ GetWaitTime
    \/ Tick

SpecTracker == InitTracker /\ [][TrackerNext]_vars

\* ------------------------------------------------------------------------
\* C1, C2: RateLimitTracker
\* ------------------------------------------------------------------------
\* the timestamps recorded so far that lie in the trailing window (t - 60, t]
RecordedInWindow(t) ==
    {i \in DOMAIN recorded : recorded[i] > t - time_window_seconds /\ recorded[i] <= t}

\* C1: for a tracker with cap c > 0, whenever at least c recorded timestamps
\* lie within the 60-second span ending now, is_limit_exceeded(now) is true;
\* and once 60 seconds have passed since the last record, it is false.
C1_ExceededWithinWindowThenClears ==
    rate_limit_rpm > 0 =>
        /\ Cardinality(RecordedInWindow(now)) >= rate_limit_rpm
              => LimitExceeded(requests, rate_limit_rpm, now)
        /\ (recorded # <<>> /\ now >= Last(recorded) + time_window_seconds)
              => ~LimitExceeded(requests, rate_limit_rpm, now)

\* C1 witness: the cap was reported exceeded after c records, and the window
\* has since elapsed so that the tracker reports it not exceeded again
C1_Witness ==
    /\ rate_limit_rpm > 0
    /\ Len(recorded) >= rate_limit_rpm
    /\ everExceeded
    /\ limit_exceeded = FALSE
    /\ now >= Last(recorded) + time_window_seconds

\* C2 (as claimed): wait time is never negative, is 0 exactly when the limit
\* is not exceeded, and never increases while no further timestamp is
\* recorded.
C2_WaitTimeMonotone ==
    [][ /\ WaitTime(requests, rate_limit_rpm, now) >= 0
        /\ (WaitTime(requests, rate_limit_rpm, now) = 0
              <=> ~LimitExceeded(requests, rate_limit_rpm, now))
        /\ recorded' = recorded
              => WaitTime(requests', rate_limit_rpm', now')
                   <= WaitTime(requests, rate_limit_rpm, now) ]_vars

\* ------------------------------------------------------------------------
\* Provider adapters (src/model_layer.py:28-44, 82-378)
\* ------------------------------------------------------------------------
AdapterClasses ==
    {"GoogleAdapter", "AnthropicAdapter", "GroqAdapter", "OllamaAdapter",
     "UnknownProviderAdapter"}

\* what one call of the provider's client can do: return a response ("ok") or
\* raise one of the transport library's exceptions, named by the except
\* clause of _perform_api_call that catches it first
ProviderRaises(cls) ==
    CASE cls = "GoogleAdapter" ->
            {"BlockedPromptException", "ResourceExhausted", "ServiceUnavailable",
             "GoogleAPIError_429", "GoogleAPIError", "Exception"}
      [] cls \in {"AnthropicAdapter", "GroqAdapter"} ->
            {"RateLimitError", "APIConnectionError", "InternalServerError",
             "APIStatusError", "Exception"}
      [] cls = "OllamaAdapter" ->
            {"ResponseError_429", "ResponseError_500", "ResponseError_404",
             "ResponseError_400_model_not_found", "ResponseError_400",
             "RequestError", "Exception"}
      [] OTHER -> {}

\* the token usage a provider response reports
Usages == {<<1, 2>>, <<3, 1>>}

ProviderOutcomes(cls) ==
    {[raw |-> "ok", usage |-> u] : u \in Usages}
      \cup {[raw |-> r, usage |-> <<0, 0>>] : r \in ProviderRaises(cls)}

APIErrorClasses ==
    {"APIError", "APIRateLimitError", "APIConnectionError", "ModelNotReadyError"}

Raised(class, why) == [status |-> "raised", class |-> class, why |-> why]

\* mutant: the catch-all clause lets the transport exception through unwrapped
ClassifyLeaky(cls, raw) ==
    CASE raw = "Exception" -> Raised("Exception", "unexpected")
      [] raw \in {"ResourceExhausted", "GoogleAPIError_429", "RateLimitError",
                  "ResponseError_429"} -> Raised("APIRateLimitError", "rate_limit")
      [] raw \in {"ServiceUnavailable", "APIConnectionError", "InternalServerError",
                  "ResponseError_500", "RequestError"} ->
            Raised("APIConnectionError", "unavailable")
      [] raw \in {"ResponseError_404", "ResponseError_400_model_not_found"} ->
            Raised("ModelNotReadyError", "not_found")
      [] raw = "BlockedPromptException" -> Raised("APIError", "prompt_blocked")
      [] OTHER -> Raised("APIError", "api_error")

\* the exception _perform_api_call raises for a transport exception
Classify(cls, raw) ==
    CASE cls = "GoogleAdapter" ->
            (CASE raw = "BlockedPromptException" -> Raised("APIError", "prompt_blocked")
               [] raw = "ResourceExhausted" -> Raised("APIRateLimitError", "rate_limit")
               [] raw = "ServiceUnavailable" -> Raised("APIConnectionError", "unavailable")
               [] raw = "GoogleAPIError_429" -> Raised("APIRateLimitError", "rate_limit")
               [] raw = "GoogleAPIError" -> Raised("APIError", "api_error")
               [] OTHER -> Raised("APIError", "unexpected"))
      [] cls \in {"AnthropicAdapter", "GroqAdapter"} ->
            (CASE raw = "RateLimitError" -> Raised("APIRateLimitError", "rate_limit")
               [] raw = "APIConnectionError" -> Raised("APIConnectionError", "unavailable")
               [] raw = "InternalServerError" -> Raised("APIConnectionError", "unavailable")
               [] raw = "APIStatusError" -> Raised("APIError", "api_error")
               [] OTHER -> Raised("APIError", "unexpected"))
      [] cls = "OllamaAdapter" ->
            (CASE raw = "ResponseError_429" -> Raised("APIRateLimitError", "rate_limit")
               [] raw = "ResponseError_500" -> Raised("APIConnectionError", "unavailable")
               [] raw \in {"ResponseError_404", "ResponseError_400_model_not_found"} ->
                     Raised("ModelNotReadyError", "not_found")
               [] raw = "ResponseError_400" -> Raised("APIError", "api_error")
               [] raw = "RequestError" -> Raised("APIConnectionError", "unavailable")
               [] OTHER -> Raised("APIError", "unexpected"))
      [] OTHER -> Raised("APIError", "unexpected")

\* COMMON_RETRY_STRATEGY: stop=stop_after_attempt(3)
stop_after_attempt == 3

\* wait_exponential(multiplier=1, min=1, max=10)
wait_multiplier == 1

wait_min == 1

wait_max == 10

Min(a, b) == IF a <= b THEN a ELSE b

\* the sleep after the n-th failed attempt: multiplier * 2^(n-1), clamped
WaitExponential(n) == Max(wait_min, Min(wait_multiplier * 2 ^ (n - 1), wait_max))

\* mutant: every adapter error is retried
ShouldRetryAny(exc) == TRUE

\* retry_if_exception_type(APIRateLimitError) | retry_if_exception_type(APIConnectionError)
ShouldRetry(exc) == exc.class \in {"APIRateLimitError", "APIConnectionError"}

\* ModelAdapter.__init__: a tracker only for a positive cap with tenacity present
HasTracker == rate_limit_rpm > 0 /\ tenacity

AdapterInit ==
    /\ adapter_class \in AdapterClasses
    /\ client \in (IF adapter_class = "UnknownProviderAdapter" THEN {FALSE} ELSE BOOLEAN)
    /\ tenacity \in BOOLEAN
    /\ rate_limit_rpm \in 0..MaxCap
    /\ requests = <<>>
    /\ recorded = <<>>
    /\ limit_exceeded = "none"
    /\ wait_time = -1
    /\ everExceeded = FALSE
    /\ gen_pc = "idle"
    /\ attempt_log = <<>>
    /\ sleep_log = <<>>
    /\ gen_result = [status |-> "none"]
    /\ gen_calls = 0

InitAdapter ==
    /\ now = 0
    /\ ConfirmIdle /\ SpeechIdle /\ OthersIdle
    /\ AdapterInit
    /\ RegistryIdle /\ QuotaIdle /\ DispatchIdle

\* generate(prompt) is entered: the stub raises at once, an adapter without a
\* client raises APIError, otherwise the throttle loop is reached
GenerateCall ==
    /\ gen_pc = "idle"
    /\ adapter_class # "none"
    /\ gen_calls < MaxCalls
    /\ gen_calls' = gen_calls + 1
    /\ attempt_log' = <<>>
    /\ sleep_log' = <<>>
    /\ IF adapter_class = "UnknownProviderAdapter"
       THEN gen_result' = Raised("NotImplementedError", "not_implemented") /\ gen_pc' = "done"
       ELSE IF ~client
            THEN gen_result' = Raised("APIError", "not_initialized") /\ gen_pc' = "done"
            ELSE gen_result' = [status |-> "none"] /\ gen_pc' = "throttle"
    /\ UNCHANGED <<now, trackerVars, adapter_class, client, tenacity, notAdapter>>

\* one iteration of the client-side throttle loop of generate
Throttle ==
    /\ gen_pc = "throttle"
    /\ IF HasTracker /\ LimitExceeded(requests, rate_limit_rpm, now)
       THEN LET wait_for == WaitTime(requests, rate_limit_rpm, now) IN
            /\ requests' = PruneOldTimestamps(requests, now)
            /\ IF wait_for <= 0
               THEN gen_pc' = "attempt" /\ UNCHANGED <<now, sleep_log>>
               ELSE /\ now' = now + wait_for
                    /\ sleep_log' = Append(sleep_log, <<"throttle", wait_for>>)
                    /\ gen_pc' = "throttle"
       ELSE /\ requests' = IF HasTracker THEN PruneOldTimestamps(requests, now) ELSE requests
            /\ gen_pc' = "attempt"
            /\ UNCHANGED <<now, sleep_log>>
    /\ UNCHANGED <<rate_limit_rpm, recorded, limit_exceeded, wait_time, everExceeded,
                   adapter_class, client, tenacity, attempt_log, gen_result, gen_calls,
                   notAdapter>>

\* one attempt of _perform_api_call under COMMON_RETRY_STRATEGY; on success
\* generate records the request and returns response_text
Attempt ==
    /\ gen_pc = "attempt"
    /\ \E o \in ProviderOutcomes(adapter_class) :
         /\ attempt_log' = Append(attempt_log, o)
         /\ IF o.raw = "ok"
            THEN /\ gen_result' = [status |-> "returned", type |-> "str", text |-> "response_text"]
                 /\ gen_pc' = "done"
                 /\ IF HasTracker
                    THEN /\ requests' = PruneOldTimestamps(Append(requests, now), now)
                         /\ recorded' = Append(recorded, now)
                    ELSE UNCHANGED <<requests, recorded>>
            ELSE /\ IF tenacity /\ ShouldRetry(Classify(adapter_class, o.raw))
                          /\ Len(attempt_log') < stop_after_attempt
                    THEN gen_pc' = "backoff" /\ UNCHANGED gen_result
                    ELSE gen_pc' = "done" /\ gen_result' = Classify(adapter_class, o.raw)
                 /\ UNCHANGED <<requests, recorded>>
    /\ UNCHANGED <<now, rate_limit_rpm, limit_exceeded, wait_time, everExceeded,
                   adapter_class, client, tenacity, sleep_log, gen_calls, notAdapter>>

\* tenacity sleeps before the next attempt
Backoff ==
    /\ gen_pc = "backoff"
    /\ now' = now + WaitExponential(Len(attempt_log))
    /\ sleep_log' = Append(sleep_log, <<"backoff", WaitExponential(Len(attempt_log))>>)
    /\ gen_pc' = "attempt"
    /\ UNCHANGED <<trackerVars, adapter_class, client, tenacity, attempt_log, gen_result,
                   gen_calls, notAdapter>>

\* the caller has the result; the adapter is free for the next call
GenerateReturn ==
    /\ gen_pc = "done"
    /\ gen_pc' = "idle"
    /\ UNCHANGED <<now, trackerVars, adapter_class, client, tenacity, attempt_log,
                   sleep_log, gen_result, gen_calls, notAdapter>>

\* time passes between calls
IdleTick ==
    /\ gen_pc = "idle"
    /\ Tick

AdapterNext ==
    \/ GenerateCall
    \/ Throttle
    \/ Attempt
    \/ Backoff
    \/ GenerateReturn
    \/ IdleTick

SpecAdapter == InitAdapter /\ [][AdapterNext]_vars


\* ------------------------------------------------------------------------
\* C3, C4, C5: adapter retry policy and failure kinds
\* ------------------------------------------------------------------------
FiveKinds == {"PromptRejected", "RateLimited", "Unavailable", "NotReady", "Unexpected"}

\* the kind of the taxonomy an exception of the APIError hierarchy stands for;
\* "outside" for an exception that is no APIError
TaxonomyKind(exc) ==
    CASE exc.class = "APIRateLimitError" -> "RateLimited"
      [] exc.class = "APIConnectionError" -> "Unavailable"
      [] exc.class = "ModelNotReadyError" -> "NotReady"
      [] exc.class = "APIError" /\ exc.why = "prompt_blocked" -> "PromptRejected"
      [] exc.class = "APIError" -> "Unexpected"
      [] OTHER -> "outside"

\* the kind of failure the i-th attempt of the current call ended with
AttemptKind(i) == TaxonomyKind(Classify(adapter_class, attempt_log[i].raw))

BackoffSleeps == {i \in DOMAIN sleep_log : sleep_log[i][1] = "backoff"}

\* C3: a generate call makes at most 3 provider attempts; every attempt but
\* the last failed RateLimited or Unavailable; an attempt failing with any
\* other kind is the last one and its failure is what the call raises.
C3_RetryPolicy ==
    /\ Len(attempt_log) <= 3
    /\ \A i \in DOMAIN attempt_log :
         /\ i < Len(attempt_log) =>
               /\ attempt_log[i].raw # "ok"
               /\ AttemptKind(i) \in {"RateLimited", "Unavailable"}
         /\ (attempt_log[i].raw # "ok"
               /\ AttemptKind(i) \in {"PromptRejected", "NotReady", "Unexpected"}) =>
               /\ i = Len(attempt_log)
               /\ gen_pc \in {"done", "idle"}
               /\ gen_result = Classify(adapter_class, attempt_log[i].raw)

\* C3 witness: a call that used all three attempts and then raised
C3_Witness ==
    /\ Len(attempt_log) = 3
    /\ gen_pc = "done"
    /\ gen_result.status = "raised"
    /\ AttemptKind(1) = "RateLimited"
    /\ AttemptKind(2) = "Unavailable"
    /\ AttemptKind(3) = "Unexpected"

\* C4 (as claimed): a call that succeeds on attempt 1 slept for no backoff;
\* one that failed twice Unavailable and then succeeded retried exactly twice;
\* and a successful call returns (text, promptTokens, responseTokens) with the
\* token counts of the successful attempt.
C4_RetriesAndTokenCounts ==
    (gen_pc = "done" /\ gen_result.status = "returned") =>
        /\ Len(attempt_log) = 1 => BackoffSleeps = {}
        /\ (Len(attempt_log) = 3 /\ AttemptKind(1) = "Unavailable"
              /\ AttemptKind(2) = "Unavailable") => Cardinality(BackoffSleeps) = 2
        /\ gen_result.type = "tuple"
        /\ gen_result.prompt_tokens = Last(attempt_log).usage[1]
        /\ gen_result.response_tokens = Last(attempt_log).usage[2]

\* C5 (as claimed): every failure of generate is one of the five kinds, and
\* the stub adapter's failure is Unexpected.
C5_AllFailuresInTaxonomy ==
    gen_result.status = "raised" =>
        /\ TaxonomyKind(gen_result) \in FiveKinds
        /\ adapter_class = "UnknownProviderAdapter" => TaxonomyKind(gen_result) = "Unexpected"

\* C5 (amended): every failure of generate on a provider adapter is an
\* APIError of one of the five kinds; the stub adapter's generate always
\* fails, with NotImplementedError, which is no APIError.
C5_ProviderFailuresInTaxonomy ==
    /\ gen_result.status = "raised" =>
          IF adapter_class = "UnknownProviderAdapter"
          THEN gen_result.class = "NotImplementedError"
          ELSE gen_result.class \in APIErrorClasses /\ TaxonomyKind(gen_result) \in FiveKinds
    /\ (adapter_class = "UnknownProviderAdapter" /\ gen_pc = "done")
          => gen_result.status = "raised"

\* C5 witness: the stub adapter's generate has failed
C5_Witness ==
    /\ adapter_class = "UnknownProviderAdapter"
    /\ gen_pc = "done"
    /\ gen_result.status = "raised"


\* ------------------------------------------------------------------------
\* ModelRegistry (src/model_layer.py:382-509)
\* ------------------------------------------------------------------------
\* a value model_conf.get(...) did not find
None == "None"

Libraries == {"google", "anthropic", "groq", "ollama"}

\* provider.lower() on the provider names of the model
Lower(provider) ==
    CASE provider = "Google" -> "google"
      [] provider = "Ollama" -> "ollama"
      [] OTHER -> provider

\* adapter_class_map.get(provider.lower())
AdapterClassMap(provider) ==
    CASE Lower(provider) = "google" -> "GoogleAdapter"
      [] Lower(provider) = "anthropic" -> "AnthropicAdapter"
      [] Lower(provider) = "groq" -> "GroqAdapter"
      [] Lower(provider) = "ollama" -> "OllamaAdapter"
      [] OTHER -> None

\* the adapter object the constructor builds from adapter_args
NewAdapter(cls, conf) ==
    [cls |-> cls,
     model_id |-> conf.model_id,
     provider |-> conf.provider,
     api_model_name |-> conf.api_model_name,
     rate_limit_rpm |-> conf.rate_limit_rpm,
     strengths |-> conf.strengths,
     has_tracker |-> (conf.rate_limit_rpm > 0 /\ tenacity),
     requests |-> <<>>]

\* self.adapters[model_id] = adapter, keeping the dict's insertion order
Store(reg, adapter) ==
    [adapters |-> (adapter.model_id :> adapter) @@ reg.adapters,
     order |-> IF adapter.model_id \in DOMAIN reg.adapters
               THEN reg.order
               ELSE Append(reg.order, adapter.model_id)]

\* mutant: a provider adapter whose constructor raises is replaced by the stub
InitializeOneFallback(reg, conf) ==
    IF None \in {conf.model_id, conf.provider, conf.api_model_name}
    THEN reg
    ELSE IF AdapterClassMap(conf.provider) # None
              /\ Lower(conf.provider) \in installed
         THEN Store(reg, NewAdapter(AdapterClassMap(conf.provider), conf))
         ELSE Store(reg, NewAdapter("UnknownProviderAdapter", conf))

\* one iteration of the loop of _initialize_all_adapters
InitializeOne(reg, conf) ==
    IF None \in {conf.model_id, conf.provider, conf.api_model_name}
    THEN reg
    ELSE IF AdapterClassMap(conf.provider) # None
         THEN IF Lower(conf.provider) \in installed
              THEN Store(reg, NewAdapter(AdapterClassMap(conf.provider), conf))
              ELSE reg
         ELSE Store(reg, NewAdapter("UnknownProviderAdapter", conf))

RECURSIVE InitializeFrom(_, _)
InitializeFrom(reg, confs) ==
    IF confs = <<>> THEN reg
    ELSE InitializeFrom(InitializeOne(reg, Head(confs)), Tail(confs))

Descriptors(ids, providers, names, rpms, strengthSets) ==
    [model_id : ids, provider : providers, api_model_name : names,
     rate_limit_rpm : rpms, strengths : strengthSets]

SeqsUpTo(S, n) == UNION {[1..k -> S] : k \in 0..n}

RegistryInit ==
    /\ models_config \in
          SeqsUpTo(Descriptors({"m1", "m2", None}, {"google", "Ollama", "acme", None},
                               {"model-name", None}, {MaxCap}, {{"fast"}}), MaxModels)
    /\ installed \in SUBSET {"google", "ollama"}
    /\ tenacity \in BOOLEAN
    /\ adapters = <<>>
    /\ adapter_order = <<>>
    /\ registry_ready = FALSE
    /\ selected = <<"none", None>>
    /\ last_op = "none"

InitRegistry ==
    /\ now = 0
    /\ ConfirmIdle /\ SpeechIdle /\ OthersIdle
    /\ RegistryInit
    /\ TrackerIdle
    /\ adapter_class = "none" /\ client = FALSE /\ gen_pc = "idle" /\ attempt_log = <<>>
    /\ sleep_log = <<>> /\ gen_result = [status |-> "none"] /\ gen_calls = 0
    /\ QuotaIdle /\ DispatchIdle

\* ModelRegistry.__init__: _initialize_all_adapters over the loaded descriptors
InitializeAllAdapters ==
    /\ ~registry_ready
    /\ LET reg == InitializeFrom([adapters |-> <<>>, order |-> <<>>], models_config) IN
         /\ adapters' = reg.adapters
         /\ adapter_order' = reg.order
    /\ registry_ready' = TRUE
    /\ last_op' = "init"
    /\ UNCHANGED <<now, models_config, installed, selected, notRegistry>>

\* get_adapter(model_id) and list_available_model_ids() read the registry
GetAdapter ==
    /\ registry_ready
    /\ last_op' = "get"
    /\ UNCHANGED <<now, models_config, installed, adapters, adapter_order, registry_ready,
                   selected, notRegistry>>

RegistryNext ==
    \/ InitializeAllAdapters
    \/ GetAdapter

SpecRegistry == InitRegistry /\ [][RegistryNext]_vars

\* ------------------------------------------------------------------------
\* C6: ModelRegistry
\* ------------------------------------------------------------------------
WellFormed(conf) == None \notin {conf.model_id, conf.provider, conf.api_model_name}

UniqueIds ==
    \A i, j \in DOMAIN models_config :
        (models_config[i].model_id = models_config[j].model_id) => i = j

\* a descriptor the registry keeps: well formed, and its provider is either
\* unrecognized (stub adapter) or recognized with its library installed
Kept(conf) ==
    /\ WellFormed(conf)
    /\ AdapterClassMap(conf.provider) # None => Lower(conf.provider) \in installed

\* C6 (as claimed): after initialisation every configured descriptor (well
\* formed, ids unique) has its adapter in the registry under its model_id.
C6_NoDescriptorDropped ==
    (registry_ready /\ UniqueIds) =>
        /\ \A i \in DOMAIN models_config :
              WellFormed(models_config[i]) =>
                  /\ models_config[i].model_id \in DOMAIN adapters
                  /\ adapters[models_config[i].model_id].provider = models_config[i].provider
        /\ Len(adapter_order) = Cardinality(DOMAIN adapters)

\* C6 (amended): after initialisation the registry holds exactly one adapter
\* for each model_id of a kept descriptor, built from the last kept descriptor
\* with that id; descriptors lacking a field, and descriptors of a recognized
\* provider whose library is not installed, are dropped.
C6_OneAdapterPerKeptDescriptor ==
    registry_ready =>
        /\ DOMAIN adapters =
              {models_config[i].model_id : i \in {j \in DOMAIN models_config : Kept(models_config[j])}}
        /\ Len(adapter_order) = Cardinality(DOMAIN adapters)
        /\ \A m \in DOMAIN adapters : \E k \in 1..Len(adapter_order) : adapter_order[k] = m
        /\ \A i \in DOMAIN models_config :
              (Kept(models_config[i])
                 /\ \A j \in DOMAIN models_config :
                       (j > i /\ Kept(models_config[j]))
                          => models_config[j].model_id # models_config[i].model_id)
              => LET a == adapters[models_config[i].model_id] IN
                 /\ a.model_id = models_config[i].model_id
                 /\ a.provider = models_config[i].provider
                 /\ a.cls = IF AdapterClassMap(models_config[i].provider) = None
                            THEN "UnknownProviderAdapter"
                            ELSE AdapterClassMap(models_config[i].provider)

\* C6 witness: an initialised registry that kept one descriptor as a stub and
\* dropped another whose provider library is missing
C6_Witness ==
    /\ registry_ready
    /\ Len(models_config) = 2
    /\ \E m \in DOMAIN adapters : adapters[m].cls = "UnknownProviderAdapter"
    /\ \E i \in DOMAIN models_config :
          WellFormed(models_config[i]) /\ ~Kept(models_config[i])


\* ------------------------------------------------------------------------
\* ModelRouter (src/model_layer.py:513-593)
\* ------------------------------------------------------------------------
TaskNames == {"simple_chat", "complex_reasoning", "document_summarization",
              "code_generation", "creative_writing", "local_fast_task"}

\* TASK_PROFILES[task_name].get("preferred_strengths", [])
PreferredStrengths(task_name) ==
    CASE task_name = "simple_chat" -> {"fast", "chat", "efficient"}
      [] task_name = "complex_reasoning" -> {"powerful", "complex-reasoning", "large-context"}
      [] task_name = "document_summarization" -> {"large-context", "powerful", "complex-reasoning"}
      [] task_name = "code_generation" -> {"powerful", "strong-coding", "complex-reasoning", "fast"}
      [] task_name = "creative_writing" -> {"powerful", "large-context"}
      [] task_name = "local_fast_task" -> {"local", "fast", "offline-capable"}
      [] OTHER -> {}

\* adapter.rate_limit_tracker and adapter.rate_limit_tracker.is_limit_exceeded(t)
Limited(adapter, t) ==
    adapter.has_tracker /\ LimitExceeded(adapter.requests, adapter.rate_limit_rpm, t)

\* len(set(adapter.strengths).intersection(preferred_strengths))
Score(adapter, task_name) ==
    Cardinality(adapter.strengths \cap PreferredStrengths(task_name))

\* mutant: the limit check of the router also records a request
AfterLimitCheckRecording(adapter, t) ==
    IF adapter.has_tracker
    THEN [adapter EXCEPT !.requests = PruneOldTimestamps(Append(@, t), t)]
    ELSE adapter

\* the adapter after the router asked its tracker: the deque is pruned
AfterLimitCheck(adapter, t) ==
    IF adapter.has_tracker
    THEN [adapter EXCEPT !.requests = PruneOldTimestamps(@, t)]
    ELSE adapter

\* mutant: equal scores keep the first adapter found
ConsiderFirstWins(st, adapter, task_name, t) ==
    IF Limited(adapter, t) THEN st
    ELSE IF Score(adapter, task_name) > 0 /\ Score(adapter, task_name) > st.max_score
         THEN [best |-> adapter.model_id, max_score |-> Score(adapter, task_name),
               best_rpm |-> adapter.rate_limit_rpm]
         ELSE st

\* one iteration of the loop of select_model over registry.adapters.items()
Consider(st, adapter, task_name, t) ==
    IF Limited(adapter, t) THEN st
    ELSE IF Score(adapter, task_name) > 0 /\ Score(adapter, task_name) > st.max_score
         THEN [best |-> adapter.model_id, max_score |-> Score(adapter, task_name),
               best_rpm |-> adapter.rate_limit_rpm]
         ELSE IF Score(adapter, task_name) > 0 /\ Score(adapter, task_name) = st.max_score
                   /\ st.best # None /\ adapter.rate_limit_rpm > st.best_rpm
              THEN [best |-> adapter.model_id, max_score |-> st.max_score,
                    best_rpm |-> adapter.rate_limit_rpm]
              ELSE st

RECURSIVE SelectLoop(_, _, _, _, _)
SelectLoop(st, ads, order, task_name, t) ==
    IF order = <<>> THEN st
    ELSE SelectLoop(Consider(st, ads[Head(order)], task_name, t), ads, Tail(order),
                    task_name, t)

\* the model_id of the adapter select_model(task_name) returns at time t, or None
SelectResult(ads, order, task_name, t) ==
    IF task_name \notin TaskNames THEN None
    ELSE SelectLoop([best |-> None, max_score |-> -1, best_rpm |-> 0], ads, order,
                    task_name, t).best

\* the task names callers pass to select_model
RequestedTasks == {"simple_chat", "code_generation", "non_existent_task"}

Ids == <<"m1", "m2", "m3", "m4">>

StrengthChoices == {{}, {"fast"}, {"fast", "chat", "efficient"}, {"powerful", "complex-reasoning"}}

RouterInit ==
    /\ models_config \in
          {c \in [1..MaxAdapters -> Descriptors({Ids[i] : i \in 1..MaxAdapters}, {"google"},
                                                {"model-name"}, 0..MaxCap, StrengthChoices)] :
              \A i \in 1..MaxAdapters : c[i].model_id = Ids[i]}
    /\ installed = {"google"}
    /\ tenacity = TRUE
    /\ adapters = <<>>
    /\ adapter_order = <<>>
    /\ registry_ready = FALSE
    /\ selected = <<"none", None>>
    /\ last_op = "none"

InitRouter ==
    /\ now = 0
    /\ ConfirmIdle /\ SpeechIdle /\ OthersIdle
    /\ RouterInit
    /\ TrackerIdle
    /\ adapter_class = "none" /\ client = FALSE /\ gen_pc = "idle" /\ attempt_log = <<>>
    /\ sleep_log = <<>> /\ gen_result = [status |-> "none"] /\ gen_calls = 0
    /\ QuotaIdle /\ DispatchIdle

\* router.select_model(task_name)
SelectModel(task_name) ==
    /\ registry_ready
    /\ selected' = <<task_name, SelectResult(adapters, adapter_order, task_name, now)>>
    /\ adapters' = IF task_name \in TaskNames
                   THEN [m \in DOMAIN adapters |-> AfterLimitCheck(adapters[m], now)]
                   ELSE adapters
    /\ last_op' = "select"
    /\ UNCHANGED <<now, models_config, installed, adapter_order, registry_ready, notRegistry>>

\* a generate call on adapter m succeeded: its tracker records the request
AdapterRecord(m) ==
    /\ registry_ready
    /\ m \in DOMAIN adapters
    /\ adapters[m].has_tracker
    /\ Len(adapters[m].requests) < MaxCap
    /\ adapters' = [adapters EXCEPT ![m].requests = PruneOldTimestamps(Append(@, now), now)]
    /\ last_op' = "record"
    /\ UNCHANGED <<now, models_config, installed, adapter_order, registry_ready, selected,
                   notRegistry>>

\* the clock advances between calls; last_op remembers whether a select_model
\* call was followed by clock steps only
RouterTick ==
    /\ now + RouterTickSeconds <= MaxTime
    /\ now' = now + RouterTickSeconds
    /\ last_op' = IF last_op \in {"select", "select_tick"} THEN "select_tick" ELSE "tick"
    /\ UNCHANGED <<models_config, installed, adapters, adapter_order, registry_ready,
                   selected, notRegistry>>

RouterNext ==
    \/ InitializeAllAdapters
    \/ \E task_name \in RequestedTasks : SelectModel(task_name)
    \/ \E m \in DOMAIN adapters : AdapterRecord(m)
    \/ RouterTick

SpecRouter == InitRouter /\ [][RouterNext]_vars

\* ------------------------------------------------------------------------
\* C7, C8: ModelRouter.select_model
\* ------------------------------------------------------------------------
\* adapters not at or over their cap at time t that share a tag with the task
Eligible(task_name, t) ==
    {m \in DOMAIN adapters :
        ~Limited(adapters[m], t) /\ Score(adapters[m], task_name) > 0}

\* C7: for every known task, select_model returns an eligible adapter of
\* maximum overlap score and, among those, of maximum configured rate limit;
\* it returns none exactly when no adapter is eligible.
C7_SelectsBestEligible ==
    registry_ready =>
        \A task_name \in TaskNames :
            LET r == SelectResult(adapters, adapter_order, task_name, now) IN
            /\ (r = None) <=> (Eligible(task_name, now) = {})
            /\ r # None =>
                 /\ r \in Eligible(task_name, now)
                 /\ \A m \in Eligible(task_name, now) :
                       /\ Score(adapters[m], task_name) <= Score(adapters[r], task_name)
                       /\ Score(adapters[m], task_name) = Score(adapters[r], task_name)
                            => adapters[m].rate_limit_rpm <= adapters[r].rate_limit_rpm

\* C7 witness: select_model returned a later adapter on the rate-limit
\* tie-break against an eligible adapter of equal score
C7_Witness ==
    /\ last_op = "select"
    /\ selected[2] # None
    /\ selected[2] # adapter_order[1]
    /\ \E m \in DOMAIN adapters :
          /\ m # selected[2]
          /\ ~Limited(adapters[m], now)
          /\ Score(adapters[m], selected[1]) = Score(adapters[selected[2]], selected[1])
          /\ adapters[m].rate_limit_rpm < adapters[selected[2]].rate_limit_rpm

\* the clock passed no expiry of a recorded request since the trackers were
\* last pruned
NoWindowExpired ==
    \A m \in DOMAIN adapters :
        PruneOldTimestamps(adapters[m].requests, now) = adapters[m].requests

\* C8 (as claimed): after select_model(task) returned, with no record and no
\* change of the registry since, a second select_model(task) returns the same
\* adapter, however much later it is called.
C8_SelectIdempotent ==
    last_op \in {"select", "select_tick"} =>
        SelectResult(adapters, adapter_order, selected[1], now) = selected[2]

\* C8 (amended): after select_model(task) returned, with no record, no change
\* of the registry and no recorded request leaving its 60 s window since, a
\* second select_model(task) returns the same adapter.
C8_SelectIdempotentWithinWindow ==
    (last_op \in {"select", "select_tick"} /\ NoWindowExpired) =>
        SelectResult(adapters, adapter_order, selected[1], now) = selected[2]

\* C8 witness: time passed since a select_model call that skipped an adapter
\* at its cap, and that adapter's request is still inside its window
C8_Witness ==
    /\ last_op = "select_tick"
    /\ selected[2] # None
    /\ NoWindowExpired
    /\ \E m \in DOMAIN adapters :
          /\ Limited(adapters[m], now)
          /\ Score(adapters[m], selected[1]) > Score(adapters[selected[2]], selected[1])

\* ------------------------------------------------------------------------
\* PraxisCore: client-side quota (src/main.py:388-467)
\* ------------------------------------------------------------------------
\* while q and q[0] < one_minute_ago: q.popleft(), on the request deque
RECURSIVE CleanRpm(_, _)
CleanRpm(q, t) ==
    IF q # <<>> /\ q[1] < t - 60 THEN CleanRpm(Tail(q), t) ELSE q

\* the same loop on the deque of (time, tokens) pairs
RECURSIVE CleanTpm(_, _)
CleanTpm(q, t) ==
    IF q # <<>> /\ q[1][1] < t - 60 THEN CleanTpm(Tail(q), t) ELSE q

RECURSIVE SumTokens(_)
SumTokens(q) == IF q = <<>> THEN 0 ELSE q[1][2] + SumTokens(Tail(q))

\* mutant: the proactive TPM check that main.py:434-437 leaves commented out
CanMakeRequestWithTpm(rpmq, tpmq, daily, t) ==
    LET current_rpm == Len(CleanRpm(rpmq, t)) IN
    IF current_rpm >= rpm_limit
    THEN <<FALSE, <<"RPM limit", rpm_limit, "reached. Current", current_rpm>>>>
    ELSE IF daily >= rpd_limit
         THEN <<FALSE, <<"RPD limit", rpd_limit, "reached. Current", daily>>>>
         ELSE IF SumTokens(CleanTpm(tpmq, t)) >= tpm_limit
              THEN <<FALSE, <<"TPM limit", tpm_limit, "reached. Current",
                             SumTokens(CleanTpm(tpmq, t))>>>>
              ELSE <<TRUE, <<"OK">>>>

\* the pair _can_make_request returns at time t; the reason string
\* f"RPM limit ({ceiling}) reached. Current: {n}" is kept as its parts
CanMakeRequest(rpmq, tpmq, daily, t) ==
    LET current_rpm == Len(CleanRpm(rpmq, t)) IN
    IF current_rpm >= rpm_limit
    THEN <<FALSE, <<"RPM limit", rpm_limit, "reached. Current", current_rpm>>>>
    ELSE IF daily >= rpd_limit
         THEN <<FALSE, <<"RPD limit", rpd_limit, "reached. Current", daily>>>>
         ELSE <<TRUE, <<"OK">>>>

\* token counts (prompt, response) a caller reports; <<0, 0>> is a failed call
ReportedUsages == {<<0, 0>>, <<1, 1>>}

QuotaInit ==
    /\ rpm_limit \in 0..MaxCeiling
    /\ tpm_limit = MaxCeiling
    /\ rpd_limit \in 0..MaxCeiling
    /\ request_timestamps_rpm = <<>>
    /\ token_usage_tpm = <<>>
    /\ daily_request_count = 0
    /\ current_day_for_rpd = 0
    /\ today = 0
    /\ usage_log = <<>>
    /\ can_request = <<>>

InitQuota ==
    /\ now = 0
    /\ ConfirmIdle /\ SpeechIdle /\ OthersIdle
    /\ QuotaInit
    /\ TrackerIdle /\ AdapterIdle /\ RegistryIdle /\ DispatchIdle

\* _can_make_request()
CanMakeRequestCall ==
    /\ can_request' = CanMakeRequest(request_timestamps_rpm, token_usage_tpm,
                                     daily_request_count, now)
    /\ request_timestamps_rpm' = CleanRpm(request_timestamps_rpm, now)
    /\ token_usage_tpm' = CleanTpm(token_usage_tpm, now)
    /\ UNCHANGED <<now, rpm_limit, tpm_limit, rpd_limit, daily_request_count,
                   current_day_for_rpd, today, usage_log, dispatchVars, notPraxis, confirmVars, speechVars>>

\* _record_api_usage(prompt_tokens, response_tokens)
RecordUsage(prompt_tokens, response_tokens) ==
    /\ Len(usage_log) < MaxRecords
    /\ request_timestamps_rpm' = CleanRpm(Append(request_timestamps_rpm, now), now)
    /\ daily_request_count' = daily_request_count + 1
    /\ token_usage_tpm' =
          CleanTpm(IF prompt_tokens + response_tokens > 0
                   THEN Append(token_usage_tpm, <<now, prompt_tokens + response_tokens>>)
                   ELSE token_usage_tpm, now)
    /\ usage_log' = Append(usage_log, now)

\* _record_api_usage called on its own
RecordApiUsage(prompt_tokens, response_tokens) ==
    /\ RecordUsage(prompt_tokens, response_tokens)
    /\ UNCHANGED <<now, rpm_limit, tpm_limit, rpd_limit, current_day_for_rpd, today,
                   can_request, dispatchVars, notPraxis, confirmVars, speechVars>>

\* a day check that never resets the daily count
DailyNeverReset(daily, day, today_utc) == <<daily, day>>

\* _reset_daily_metrics_if_new_day(): the daily count and the stored day after
\* the check made on the UTC date today_utc
DailyAfterReset(daily, day, today_utc) ==
    IF today_utc > day THEN <<0, today_utc>> ELSE <<daily, day>>

\* a reset that also empties the two rolling deques on a new day
MetricsAfterResetClearing(rpmq, tpmq, daily, day, today_utc) ==
    IF today_utc > day THEN <<<<>>, <<>>, 0, today_utc>> ELSE <<rpmq, tpmq, daily, day>>

\* _reset_daily_metrics_if_new_day(), lines 401-412: the four metrics of
\* PraxisCore after the check: the request deque, the token deque, the daily
\* count and the stored day. The body assigns the last two only.
MetricsAfterReset(rpmq, tpmq, daily, day, today_utc) ==
    <<rpmq, tpmq, DailyAfterReset(daily, day, today_utc)[1],
      DailyAfterReset(daily, day, today_utc)[2]>>

\* _reset_daily_metrics_if_new_day()
ResetDailyMetricsIfNewDay ==
    /\ LET after == MetricsAfterReset(request_timestamps_rpm, token_usage_tpm,
                                      daily_request_count, current_day_for_rpd, today)
       IN
       /\ request_timestamps_rpm' = after[1]
       /\ token_usage_tpm' = after[2]
       /\ daily_request_count' = after[3]
       /\ current_day_for_rpd' = after[4]
    /\ UNCHANGED <<now, rpm_limit, tpm_limit, rpd_limit,
                   today, usage_log, can_request, dispatchVars, notPraxis, confirmVars, speechVars>>

\* the clock passes midnight UTC
Midnight ==
    /\ today < MaxDays
    /\ now + TickSeconds <= MaxTime
    /\ now' = now + TickSeconds
    /\ today' = today + 1
    /\ UNCHANGED <<rpm_limit, tpm_limit, rpd_limit, request_timestamps_rpm, token_usage_tpm,
                   daily_request_count, current_day_for_rpd, usage_log, can_request,
                   dispatchVars, notPraxis, confirmVars, speechVars>>

QuotaNext ==
    \/ CanMakeRequestCall
    \/ \E u \in ReportedUsages : RecordApiUsage(u[1], u[2])
    \/ ResetDailyMetricsIfNewDay
    \/ Tick
    \/ Midnight

SpecQuota == InitQuota /\ [][QuotaNext]_vars

\* ------------------------------------------------------------------------
\* C9: _can_make_request
\* ------------------------------------------------------------------------
\* requests recorded in the rolling 60 seconds ending now
RollingRequestCount ==
    Cardinality({i \in DOMAIN usage_log : usage_log[i] >= now - 60})

\* contents the TPM deque could have instead
TpmQueues == {<<>>, token_usage_tpm, <<<<now, 1>>>>, <<<<now, MaxCeiling>>, <<now, MaxCeiling>>>>}

\* C9: _can_make_request returns (False, reason) iff the rolling 60-second
\* request count is >= the RPM ceiling or daily_request_count is >= the RPD
\* ceiling, and returns the same pair whatever the TPM deque holds.
C9_CanProceedIffUnderRpmAndRpd ==
    LET result == CanMakeRequest(request_timestamps_rpm, token_usage_tpm,
                                 daily_request_count, now) IN
    /\ (result[1] = FALSE) <=>
          (RollingRequestCount >= rpm_limit \/ daily_request_count >= rpd_limit)
    /\ result[1] = FALSE => result[2] # <<"OK">>
    /\ \A tpmq \in TpmQueues :
          CanMakeRequest(request_timestamps_rpm, tpmq, daily_request_count, now) = result

\* C9 witness: _can_make_request allowed a request although the tokens of the
\* last minute reach the TPM ceiling, with an older request out of the window
C9_Witness ==
    /\ can_request = <<TRUE, <<"OK">>>>
    /\ SumTokens(CleanTpm(token_usage_tpm, now)) >= tpm_limit
    /\ RollingRequestCount > 0
    /\ RollingRequestCount < Len(usage_log)


\* ------------------------------------------------------------------------
\* PraxisCore.process_command_text (src/main.py:603-764)
\* ------------------------------------------------------------------------
UserInputs == {"", "exit", "praxis what time is it"}

\* strip_wake_words on the inputs of the model: a leading wake word is cut
\* off and the rest is stripped of outer whitespace
StripWakeWords(command) ==
    IF command = "praxis what time is it" THEN "what time is it" ELSE command

MsgNotInitialized == <<"System not fully initialized. Please set user first.">>
MsgGoodbye == <<"Goodbye.">>
MsgCriticalError ==
    <<"A critical error occurred while processing your command. Please check the logs.">>
MsgUnmuted == <<"Text-to-speech is now unmuted.">>

\* f"I am currently unable to process new requests due to API rate limits:
\* {reason}. Please try again later."
RateLimitMessage(reason) ==
    <<"I am currently unable to process new requests due to API rate limits", reason,
      "Please try again later.">>

\* what initialize_user_session spoke before the first command
Greeting == << <<"Welcome. Initializing systems">>, <<"Systems nominal">> >>

\* _update_gui_status(praxis_state_override): the state reported to the GUI; a
\* pending confirmation is reported as "Awaiting Confirmation" whatever the
\* override (lines 490-503)
ReportedState(praxis_state_override, pending) ==
    IF pending # <<>> THEN "Awaiting Confirmation" ELSE praxis_state_override

\* the global speak(): the text joins current_command_spoken_parts
\* and, the engine being available, is put on tts_queue
Speak(out, msg) == [out EXCEPT !.parts = Append(@, msg), !.put = Append(@, msg)]

\* SkillContext.speak: captured while muted, else handed to speak()
ContextSpeak(out, muted, msg) ==
    IF muted THEN [out EXCEPT !.captured = Append(@, msg)] ELSE Speak(out, msg)

\* the outcomes of the call process_command_with_llm(command=, chat_session=,
\* available_skills_prompt_str=, ai_name=, model=, user_sentiment=) at line 659:
\* brain.process_command_with_llm takes neither chat_session nor model
ProcessCommandWithLlmOutcomes == {"TypeError"}

\* mutant: the gate of the dispatcher checks the RPM ceiling only
GateRpmOnly(rpmq, tpmq, daily, t) ==
    IF Len(CleanRpm(rpmq, t)) >= rpm_limit
    THEN CanMakeRequest(rpmq, tpmq, daily, t)
    ELSE <<TRUE, <<"OK">>>>

\* the call self._can_make_request() at line 649
Gate(rpmq, tpmq, daily, t) == CanMakeRequest(rpmq, tpmq, daily, t)

DispatchInit ==
    /\ session_ready \in BOOLEAN
    /\ is_running = TRUE
    /\ is_muted = FALSE
    /\ disp_pc = "Idle"
    /\ clean_input = ""
    /\ current_command_spoken_parts = IF session_ready THEN Greeting ELSE <<>>
    /\ spoken_messages_during_mute = <<>>
    /\ praxis_state = "Idle"
    /\ turn = NoTurn
    /\ turns = 0

InitDispatch ==
    /\ now = 0
    /\ ConfirmIdle /\ SpeechIdle /\ OthersIdle
    /\ QuotaInit
    /\ DispatchInit
    /\ TrackerIdle /\ AdapterIdle /\ RegistryIdle

Out == [parts |-> current_command_spoken_parts, captured |-> spoken_messages_during_mute,
        put |-> <<>>]

\* a put that waits while the queue holds an entry (a queue of maxsize 1)
PutWhenEmpty(texts) ==
    /\ tts_queue = <<>> \/ texts = <<>> \/ ~engine_available
    /\ IF engine_available
       THEN /\ tts_queue' = tts_queue \o [i \in 1..Len(texts) |-> <<put_count + i, texts[i]>>]
            /\ unfinished_tasks' = unfinished_tasks + Len(texts)
            /\ put_count' = put_count + Len(texts)
       ELSE UNCHANGED queueVars

\* speak(), lines 112-113: tts_queue.put(text) for every text of texts, when the
\* engine is available; queue.Queue() of line 51 has no maxsize, put never waits
Put(texts) ==
    IF engine_available
    THEN /\ tts_queue' = tts_queue \o [i \in 1..Len(texts) |-> <<put_count + i, texts[i]>>]
         /\ unfinished_tasks' = unfinished_tasks + Len(texts)
         /\ put_count' = put_count + Len(texts)
    ELSE UNCHANGED queueVars

\* process_command_text(user_input), lines 603-646: the early returns, the
\* exit words, the wake-word strip
TurnBegin(user_input) ==
    /\ disp_pc = "Idle"
    /\ turns < MaxTurns
    /\ turns' = turns + 1
    /\ IF ~session_ready
       THEN /\ current_command_spoken_parts' = Speak(Out, MsgNotInitialized).parts
            /\ Put(Speak(Out, MsgNotInitialized).put)
            /\ praxis_state' = ReportedState("Error: Not Initialized", pending_confirmation)
            /\ turn' = [NoTurn EXCEPT !.outcome = "not_initialized"]
            /\ UNCHANGED <<is_running, disp_pc, clean_input, spoken_messages_during_mute,
                           last_interaction_time>>
       ELSE IF user_input = ""
       THEN /\ praxis_state' = ReportedState("Idle", pending_confirmation)
            /\ turn' = [NoTurn EXCEPT !.outcome = "empty"]
            /\ UNCHANGED <<is_running, disp_pc, clean_input, current_command_spoken_parts,
                           spoken_messages_during_mute, last_interaction_time, queueVars>>
       ELSE IF user_input \in {"exit", "quit", "goodbye"}
       THEN /\ last_interaction_time' = now
            /\ current_command_spoken_parts' =
                  ContextSpeak([Out EXCEPT !.parts = <<>>], is_muted, MsgGoodbye).parts
            /\ spoken_messages_during_mute' =
                  ContextSpeak([Out EXCEPT !.parts = <<>>], is_muted, MsgGoodbye).captured
            /\ Put(ContextSpeak(Out, is_muted, MsgGoodbye).put)
            /\ is_running' = FALSE
            /\ praxis_state' = ReportedState("Shutting down", pending_confirmation)
            /\ turn' = [NoTurn EXCEPT !.outcome = "exit"]
            /\ UNCHANGED <<disp_pc, clean_input>>
       ELSE /\ last_interaction_time' = now
            /\ current_command_spoken_parts' = <<>>
            /\ praxis_state' = ReportedState("Thinking...", pending_confirmation)
            /\ clean_input' = StripWakeWords(user_input)
            /\ disp_pc' = "Thinking"
            /\ turn' = [NoTurn EXCEPT !.outcome = "thinking"]
            /\ UNCHANGED <<is_running, spoken_messages_during_mute, queueVars>>
    /\ UNCHANGED <<now, session_ready, is_muted, quotaVars, notPraxis, notTurn>>

\* lines 648-654: _reset_daily_metrics_if_new_day, _can_make_request and, when
\* it refuses, the rate-limit message and the return
TurnGate ==
    /\ disp_pc = "Thinking"
    /\ LET reset == DailyAfterReset(daily_request_count, current_day_for_rpd, today)
           daily == reset[1]
           result == Gate(request_timestamps_rpm, token_usage_tpm, daily, now)
           out == ContextSpeak(Out, is_muted, RateLimitMessage(result[2]))
       IN
       /\ daily_request_count' = daily
       /\ current_day_for_rpd' = reset[2]
       /\ request_timestamps_rpm' = CleanRpm(request_timestamps_rpm, now)
       /\ token_usage_tpm' = CleanTpm(token_usage_tpm, now)
       /\ can_request' = result
       /\ UNCHANGED <<usage_log>>
       /\ IF ~result[1]
          THEN /\ current_command_spoken_parts' = out.parts
               /\ spoken_messages_during_mute' = out.captured
               /\ Put(out.put)
               /\ praxis_state' = ReportedState("Rate Limited", pending_confirmation)
               /\ disp_pc' = "Idle"
          ELSE /\ disp_pc' = "Calling"
               /\ UNCHANGED <<current_command_spoken_parts, spoken_messages_during_mute,
                              praxis_state, queueVars>>
       /\ turn' = [turn EXCEPT
             !.outcome = IF ~result[1] THEN "rate_limited" ELSE "calling",
             !.over_ceiling = (Cardinality({i \in DOMAIN usage_log : usage_log[i] >= now - 60})
                                  >= rpm_limit
                               \/ daily >= rpd_limit),
             !.can_request = result,
             !.muted = is_muted,
             !.usage_recorded = (usage_log' # usage_log
                                 \/ Len(request_timestamps_rpm') > Len(request_timestamps_rpm)
                                 \/ Len(token_usage_tpm') > Len(token_usage_tpm)
                                 \/ daily_request_count' > daily_request_count)]
    /\ UNCHANGED <<now, rpm_limit, tpm_limit, rpd_limit, today, session_ready, is_running,
                   is_muted, clean_input, turns, notPraxis, last_interaction_time, notTurn>>

\* lines 656-764: the call of process_command_with_llm raises, the handler of
\* Exception speaks the critical-error message, finally reports Idle
TurnCall ==
    /\ disp_pc = "Calling"
    /\ \E outcome \in ProcessCommandWithLlmOutcomes :
          /\ outcome = "TypeError"
          /\ current_command_spoken_parts' = Speak(Out, MsgCriticalError).parts
          /\ Put(Speak(Out, MsgCriticalError).put)
          /\ turn' = [turn EXCEPT !.outcome = "critical_error"]
    /\ praxis_state' = ReportedState("Idle", pending_confirmation)
    /\ disp_pc' = "Idle"
    /\ UNCHANGED <<now, session_ready, is_running, is_muted, clean_input,
                   spoken_messages_during_mute, turns, quotaVars, notPraxis,
                   last_interaction_time, notTurn>>

\* toggle_tts_mute_core()
ToggleTtsMuteCore ==
    /\ session_ready
    /\ is_muted \/ Len(spoken_messages_during_mute) < MaxSpoken
    /\ ~is_muted \/ Len(current_command_spoken_parts) < MaxSpoken
    /\ is_muted' = ~is_muted
    /\ current_command_spoken_parts' =
          IF is_muted THEN Speak(Out, MsgUnmuted).parts ELSE current_command_spoken_parts
    /\ Put(IF is_muted THEN Speak(Out, MsgUnmuted).put ELSE <<>>)
    /\ praxis_state' = ReportedState("Idle", pending_confirmation)
    /\ UNCHANGED <<now, session_ready, is_running, disp_pc, clean_input,
                   spoken_messages_during_mute, turn, turns, quotaVars, notPraxis,
                   last_interaction_time, notTurn>>

\* _record_api_usage between two commands. Its one call site, line 669, follows
\* the call of line 659; the operation is kept so that the ceilings are reached
\* by recorded requests, as they are once that call returns.
UsageRecorded ==
    /\ disp_pc = "Idle"
    /\ Len(usage_log) < MaxCeiling
    /\ RecordApiUsage(1, 1)

\* the clock advances between and during commands
DispatchTick ==
    /\ now + TickSeconds <= MaxDispatchTime
    /\ Tick

DispatchMidnight ==
    /\ now + TickSeconds <= MaxDispatchTime
    /\ Midnight

DispatchNext ==
    \/ \E user_input \in UserInputs : TurnBegin(user_input)
    \/ TurnGate
    \/ TurnCall
    \/ ToggleTtsMuteCore
    \/ UsageRecorded
    \/ DispatchTick
    \/ DispatchMidnight

SpecDispatch == InitDispatch /\ [][DispatchNext]_vars

\* ------------------------------------------------------------------------
\* C10: a turn refused by the quota gate
\* ------------------------------------------------------------------------
\* the turn just ended went through the gate with a ceiling reached
GateRefusedTurn ==
    /\ disp_pc = "Idle"
    /\ turn.outcome \in {"rate_limited", "critical_error"}
    /\ turn.over_ceiling

\* the common part of C10: no model call, no usage recorded, no interaction
\* record, a reason citing the configured ceiling, back to Idle
RefusedTurnEffects ==
    /\ turn.outcome = "rate_limited"
    /\ turn.can_request[1] = FALSE
    /\ turn.model_calls = 0 /\ gen_calls = 0
    /\ ~turn.usage_recorded
    /\ turn.interactions_logged = 0
    /\ turn.can_request[2][2] = IF turn.can_request[2][1] = "RPM limit" THEN rpm_limit
                                ELSE rpd_limit

\* C10 (as claimed): a turn that finds a ceiling reached makes no model call,
\* records no usage, logs no interaction, speaks the rate-limit message citing
\* the configured ceiling and returns to Idle.
C10_RefusedTurnSpeaksRateLimit ==
    GateRefusedTurn =>
        /\ RefusedTurnEffects
        /\ \E i \in DOMAIN current_command_spoken_parts :
              current_command_spoken_parts[i] = RateLimitMessage(turn.can_request[2])

\* C10 (amended): as claimed, except that while text-to-speech is muted the
\* rate-limit message is captured in spoken_messages_during_mute, not spoken.
C10_RefusedTurnSpeaksUnlessMuted ==
    GateRefusedTurn =>
        /\ RefusedTurnEffects
        /\ LET said == IF turn.muted THEN spoken_messages_during_mute
                       ELSE current_command_spoken_parts IN
           \E i \in DOMAIN said : said[i] = RateLimitMessage(turn.can_request[2])

\* C10 witness: RPM ceiling 1, one request recorded within the last 60 s, and
\* the turn was refused with the message spoken
C10_Witness ==
    /\ GateRefusedTurn
    /\ rpm_limit = 1
    /\ Len(usage_log) = 1
    /\ turn.can_request = <<FALSE, <<"RPM limit", 1, "reached. Current", 1>>>>
    /\ ~turn.muted
    /\ current_command_spoken_parts = <<RateLimitMessage(turn.can_request[2])>>

\* ------------------------------------------------------------------------
\* C11: the daily ceiling and the day rollover
\* ------------------------------------------------------------------------
\* the step of a turn through the quota gate (lines 648-654)
GateStep == disp_pc = "Thinking" /\ disp_pc' # "Thinking"

\* C11: a turn that reaches the gate with dailyRequestCount at or above the RPD
\* ceiling on the stored day is blocked; a turn that reaches the gate on a UTC
\* date other than the stored day sets dailyRequestCount to 0 and the stored
\* day to the current date, and is admitted when the rolling 60 s count is under
\* the RPM ceiling (the RPD ceiling being at least 1).
C11_DayRolloverResetsDailyCount ==
    [][GateStep =>
          /\ (today = current_day_for_rpd /\ daily_request_count >= rpd_limit)
                 => (disp_pc' = "Idle" /\ turn'.outcome = "rate_limited"
                     /\ daily_request_count' = daily_request_count)
          /\ (today # current_day_for_rpd)
                 => /\ daily_request_count' = 0
                    /\ current_day_for_rpd' = today
                    /\ (RollingRequestCount < rpm_limit /\ rpd_limit > 0)
                           => (disp_pc' = "Calling" /\ turn'.can_request = <<TRUE, <<"OK">>>>)
    ]_vars

\* C11 witness: the ceiling of the day was reached by recorded requests, the
\* date changed, and the turn now past the gate found the count reset and was
\* admitted
C11_Witness ==
    /\ disp_pc = "Calling"
    /\ rpd_limit > 0
    /\ Len(usage_log) >= rpd_limit
    /\ today > 0
    /\ current_day_for_rpd = today
    /\ daily_request_count = 0
    /\ turn.can_request = <<TRUE, <<"OK">>>>


\* ------------------------------------------------------------------------
\* PraxisCore: skill invocation, fallback confirmation, inactivity
\* (src/main.py:668-748, 766-817, 856-881)
\* ------------------------------------------------------------------------
ConfirmTickSeconds == 400
\* the step of the clock of SpecConfirm
MaxConfirmTime == 400
\* the latest time of SpecConfirm
MaxResponses == 2
\* the most answers given to handle_gui_confirmation
MaxInvocations == 2
\* the most handler invocations before the inactivity timer stops firing

INACTIVITY_THRESHOLD_SECONDS == 300

\* the registry filled by load_skills from skills/: the skills the model uses
SKILLS == {"get_time", "web_search", "suggest_engagement_topic",
           "attempt_autonomous_skill_learning"}

\* how a call of a skill function ends: it returns None, or raises
HandlerOutcomes == {"None", "TypeError", "Exception"}

Raises(outcome) == outcome \in {"TypeError", "Exception"}

\* what process_command_with_llm returns, <<parsed_command, p_tokens, r_tokens>>
\* (brain.py:207, 213, 221, 226): parsed_command is None, an empty object, or
\* names its "skill"
LlmResults == {<<"None", 0, 0>>, <<"None", 1, 0>>, <<"{}", 1, 1>>,
               <<"get_time", 1, 1>>, <<"speak", 1, 1>>, <<"fly_to_the_moon", 1, 1>>}

MsgSkillArguments(skill) == <<"I had trouble with the arguments for the action", skill>>
MsgSkillError(skill) == <<"I encountered an error while trying to perform the action", skill>>
MsgSpeakSkill == <<"I'm not sure what to say.">>
MsgCoreTrouble ==
    <<"I had trouble processing that request with my core systems. Please try rephrasing or try again later.">>
MsgFallbackPrompt ==
    <<"I'm not quite sure how to handle that. Should I try searching the web for you?">>
MsgWebSearchUnavailable == <<"The web search skill is not available.">>
MsgWontSearch == <<"Okay, I won't search the web.">>
MsgOfferAssistance == <<"It's been a while. Is there anything I can assist you with?">>
\* what a skill that returns says through the context
SkillResponse(skill) == <<"response of", skill>>

\* one entry of the history of handler invocations
Invocation(via, skill, arg, outcome, kb_record) ==
    [via |-> via, skill |-> skill, arg |-> arg, outcome |-> outcome, recorded |-> kb_record,
     pending |-> pending_confirmation # <<>>]

\* lines 671-748: does the result lead to _trigger_fallback_handler
\* (mutant: every falsy result does)
TriggersFallbackAlways(parsed, p_tokens, r_tokens) ==
    parsed \in {"None", "{}"} \/ (parsed \notin SKILLS /\ parsed # "speak")

\* lines 671-748: does the result lead to _trigger_fallback_handler
TriggersFallback(parsed, p_tokens, r_tokens) ==
    IF parsed \in {"None", "{}"}
    THEN ~(p_tokens > 0 /\ r_tokens = 0)
    ELSE parsed \notin SKILLS /\ parsed # "speak"

\* lines 682-748: what the dispatcher and the skill say for a result
ResultSpeech(parsed, p_tokens, r_tokens, outcome) ==
    LET cleared == [Out EXCEPT !.captured = <<>>] IN
    IF parsed \in SKILLS
    THEN ContextSpeak(cleared, is_muted,
                      IF outcome = "TypeError" THEN MsgSkillArguments(parsed)
                      ELSE IF outcome = "Exception" THEN MsgSkillError(parsed)
                      ELSE SkillResponse(parsed))
    ELSE IF parsed = "speak" THEN ContextSpeak(Out, is_muted, MsgSpeakSkill)
    ELSE IF TriggersFallback(parsed, p_tokens, r_tokens)
    THEN ContextSpeak(Out, is_muted, MsgFallbackPrompt)
    ELSE ContextSpeak(Out, is_muted, MsgCoreTrouble)

\* lines 693-700: what a handler called at line 693 may hand back: nothing, a
\* bool, or a value of another type ("str")
ReturnValues == {"None", "True", "False", "str"}

\* how the call of line 693 may end: a return, or an exception
DirectOutcomes == ReturnValues \cup {"TypeError", "Exception"}

\* lines 692-710: skill_executed_successfully as the finally clause finds it:
\* the bool the handler returned, True for None, False for any other type and
\* for an exception
SkillExecutedSuccessfully(outcome) ==
    IF outcome \in {"True", "False"} THEN outcome = "True"
    ELSE outcome = "None"

\* lines 668-748 and 758-764: the statements that follow the call of line 659
\* once it has returned: usage recorded, the skill invoked inside its
\* try/except/finally, the built-in speak, or the fallback prompt
TurnResult ==
    /\ disp_pc = "Calling"
    /\ \E result \in LlmResults, outcome \in DirectOutcomes :
          LET parsed == result[1]
              fallback == TriggersFallback(parsed, result[2], result[3])
              out == ResultSpeech(parsed, result[2], result[3], outcome)
          IN
          /\ parsed \in SKILLS \/ outcome = "None"
          /\ RecordUsage(result[2], result[3])
          /\ invocations' =
                IF parsed \in SKILLS
                THEN Append(invocations,
                            Invocation("model", parsed, "", outcome,
                                       IF SkillExecutedSuccessfully(outcome)
                                       THEN "success" ELSE "failure"))
                ELSE invocations
          /\ pending_confirmation' = IF fallback THEN <<clean_input>> ELSE pending_confirmation
          /\ current_command_spoken_parts' = out.parts
          /\ spoken_messages_during_mute' = out.captured
          /\ Put(out.put)
          /\ praxis_state' = ReportedState("Idle", pending_confirmation')
          /\ turn' = [turn EXCEPT
                !.outcome = IF parsed \in SKILLS THEN "skill"
                            ELSE IF parsed = "speak" THEN "speak"
                            ELSE IF fallback THEN "fallback" ELSE "core_error",
                !.model_calls = 1,
                !.usage_recorded = TRUE,
                !.interactions_logged = IF fallback THEN 2 ELSE 1,
                !.result = result]
    /\ disp_pc' = "Idle"
    /\ UNCHANGED <<now, rpm_limit, tpm_limit, rpd_limit, current_day_for_rpd, today, can_request,
                   session_ready, is_running, is_muted, clean_input, turns, notPraxis,
                   last_interaction_time, escaped, responses, inact_pc, inact_time, workerVars>>

\* lines 797-809: the handler invocations handle_gui_confirmation makes
\* (mutant: the fallback skill runs whatever the answer)
ConfirmedInvocationsAlways(confirmed, pending, outcome) ==
    <<Invocation("fallback", "web_search", pending[1], outcome, "none")>>

\* lines 797-809: the handler invocations handle_gui_confirmation makes for a
\* pending web_search_fallback
ConfirmedInvocations(confirmed, pending, outcome) ==
    IF confirmed /\ "web_search" \in SKILLS
    THEN <<Invocation("fallback", "web_search", pending[1], outcome, "none")>>
    ELSE <<>>

\* handle_gui_confirmation(confirmed), lines 786-817
HandleGuiConfirmation(confirmed) ==
    /\ Len(responses) < MaxResponses
    /\ responses' = Append(responses, confirmed)
    /\ IF pending_confirmation = <<>> \/ ~session_ready
       THEN /\ praxis_state' = ReportedState("Idle", pending_confirmation)
            /\ UNCHANGED <<pending_confirmation, invocations, escaped,
                           current_command_spoken_parts, spoken_messages_during_mute,
                           queueVars>>
       ELSE \E outcome \in HandlerOutcomes :
            LET invoked == ConfirmedInvocations(confirmed, pending_confirmation, outcome)
                out == IF ~confirmed THEN ContextSpeak(Out, is_muted, MsgWontSearch)
                       ELSE IF invoked = <<>>
                       THEN ContextSpeak(Out, is_muted, MsgWebSearchUnavailable)
                       ELSE IF Raises(outcome) THEN Out
                       ELSE ContextSpeak(Out, is_muted, SkillResponse("web_search"))
                propagates == invoked # <<>> /\ Raises(outcome)
            IN
            /\ invoked # <<>> \/ outcome = "None"
            /\ pending_confirmation' = <<>>
            /\ invocations' = invocations \o invoked
            /\ escaped' = IF propagates THEN "handle_gui_confirmation" ELSE escaped
            /\ current_command_spoken_parts' = out.parts
            /\ spoken_messages_during_mute' = out.captured
            /\ Put(out.put)
            /\ praxis_state' = IF propagates THEN praxis_state ELSE ReportedState("Idle", <<>>)
    /\ UNCHANGED <<now, session_ready, is_running, is_muted, disp_pc, clean_input, turn, turns,
                   quotaVars, notPraxis, last_interaction_time, inact_pc, inact_time, workerVars>>

\* handle_inactivity(), lines 856-871: the guards, the reading of the clock, the
\* test of pending_confirmation
InactivityCheck ==
    /\ inact_pc = "Idle"
    /\ Len(invocations) < MaxInvocations
    /\ session_ready /\ is_running
    /\ now - last_interaction_time > INACTIVITY_THRESHOLD_SECONDS
    /\ IF pending_confirmation # <<>>
       THEN /\ last_interaction_time' = now
            /\ UNCHANGED <<inact_pc, inact_time, praxis_state>>
       ELSE /\ inact_pc' = "Engaging"
            /\ inact_time' = now
            /\ praxis_state' = ReportedState("Proactive...", pending_confirmation)
            /\ UNCHANGED last_interaction_time
    /\ UNCHANGED <<now, session_ready, is_running, is_muted, disp_pc, clean_input,
                   current_command_spoken_parts, spoken_messages_during_mute, turn, turns,
                   quotaVars, notPraxis, pending_confirmation, invocations, escaped, responses,
                   speechVars>>

\* random.choices(["offer_assistance", "suggest_topic", "attempt_learning"], ...)
ActionChoices == {"offer_assistance", "suggest_topic", "attempt_learning"}

\* lines 875-879: the proactive action of a choice: the skill called, or
\* "speak" for the spoken offer of assistance
ProactiveAction(action_choice) ==
    IF action_choice = "attempt_learning" /\ "attempt_autonomous_skill_learning" \in SKILLS
    THEN "attempt_autonomous_skill_learning"
    ELSE IF action_choice = "suggest_topic" /\ "suggest_engagement_topic" \in SKILLS
    THEN "suggest_engagement_topic"
    ELSE "speak"

\* handle_inactivity(), lines 872-881: the proactive action, then the timer reset
InactivityEngage ==
    /\ inact_pc = "Engaging"
    /\ \E action_choice \in ActionChoices, outcome \in HandlerOutcomes :
          LET action == ProactiveAction(action_choice)
              propagates == action # "speak" /\ Raises(outcome)
              out == IF propagates THEN Out
                     ELSE ContextSpeak(Out, is_muted,
                                       IF action = "speak" THEN MsgOfferAssistance
                                       ELSE SkillResponse(action))
          IN
          /\ action # "speak" \/ outcome = "None"
          /\ invocations' = Append(invocations,
                                   Invocation("proactive", action, "", outcome, "none"))
          /\ escaped' = IF propagates THEN "handle_inactivity" ELSE escaped
          /\ current_command_spoken_parts' = out.parts
          /\ spoken_messages_during_mute' = out.captured
          /\ Put(out.put)
          /\ last_interaction_time' = IF propagates THEN last_interaction_time ELSE inact_time
          /\ praxis_state' = IF propagates THEN praxis_state
                             ELSE ReportedState("Idle", pending_confirmation)
    /\ inact_pc' = "Idle"
    /\ UNCHANGED <<now, session_ready, is_running, is_muted, disp_pc, clean_input, turn, turns,
                   quotaVars, notPraxis, pending_confirmation, responses, inact_time, workerVars>>

\* the clock advances
ConfirmTick ==
    /\ now + ConfirmTickSeconds <= MaxConfirmTime
    /\ now' = now + ConfirmTickSeconds
    /\ UNCHANGED <<trackerVars, notTracker>>

\* an initialised session with the ceilings of config.py:28-30 and no
\* text-to-speech engine
InitConfirm ==
    /\ now = 0
    /\ ConfirmIdle /\ SpeechIdle /\ OthersIdle
    /\ TrackerIdle /\ AdapterIdle /\ RegistryIdle
    /\ rpm_limit = 15 /\ tpm_limit = 1000000 /\ rpd_limit = 1500
    /\ request_timestamps_rpm = <<>>
    /\ token_usage_tpm = <<>>
    /\ daily_request_count = 0
    /\ current_day_for_rpd = 0
    /\ today = 0
    /\ usage_log = <<>>
    /\ can_request = <<>>
    /\ session_ready = TRUE
    /\ is_running = TRUE
    /\ is_muted = FALSE
    /\ disp_pc = "Idle"
    /\ clean_input = ""
    /\ current_command_spoken_parts = Greeting
    /\ spoken_messages_during_mute = <<>>
    /\ praxis_state = "Idle"
    /\ turn = NoTurn
    /\ turns = 0

\* the commands given to the dispatcher: two that reach the model
ConfirmInputs == UserInputs \cup {"open the pod bay doors"}

ConfirmNext ==
    \/ \E user_input \in ConfirmInputs : TurnBegin(user_input)
    \/ TurnGate
    \/ TurnCall
    \/ TurnResult
    \/ \E confirmed \in BOOLEAN : HandleGuiConfirmation(confirmed)

SpecConfirm == InitConfirm /\ [][ConfirmNext]_vars

\* the same with the inactivity thread and the clock
InactivityNext ==
    \/ ConfirmNext
    \/ InactivityCheck
    \/ InactivityEngage
    \/ ConfirmTick

SpecInactivity == InitConfirm /\ [][InactivityNext]_vars

NoUsableSkill(result) == result[1] \in {"None", "{}"} \/ result[1] \notin SKILLS \cup {"speak"}

ConfirmationStep == Len(responses') > Len(responses)

TTS_SHUTDOWN_SENTINEL == <<"TTS_SHUTDOWN_SENTINEL">>
MsgShuttingDown == <<"Praxis shutting down.">>

IsSentinel(entry) == entry[2] = TTS_SHUTDOWN_SENTINEL

\* a worker that treats the sentinel as a text
StopsWorkerNever(entry) == FALSE

\* tts_worker, line 70: item is TTS_SHUTDOWN_SENTINEL
StopsWorker(entry) == IsSentinel(entry)

\* a queue whose get() returns the newest entry
QueueGetNewest(queue) == <<queue[Len(queue)], SubSeq(queue, 1, Len(queue) - 1)>>

\* tts_queue.get() on a queue.Queue: <<the oldest entry, the rest>>
QueueGet(queue) == <<Head(queue), Tail(queue)>>

\* how engine.say / engine.runAndWait end for one text: it is spoken, or an
\* exception (RuntimeError or another) is caught and the text skipped
SynthesisOutcomes == {"spoken", "Exception"}

\* tts_worker, lines 67-73: get() returns an entry; the sentinel ends the loop
WorkerTake ==
    /\ worker_pc = "Waiting"
    /\ tts_queue # <<>>
    /\ LET got == QueueGet(tts_queue) IN
       /\ tts_queue' = got[2]
       /\ taken' = Append(taken, got[1])
       /\ IF StopsWorker(got[1])
          THEN /\ unfinished_tasks' = unfinished_tasks - 1
               /\ worker_pc' = "Finished"
               /\ UNCHANGED worker_item
          ELSE /\ worker_item' = got[1]
               /\ worker_pc' = "Speaking"
               /\ UNCHANGED unfinished_tasks
    /\ UNCHANGED <<now, put_count, engine_available, spoken, shutdown_pc, trackerVars,
                   adapterVars, registryVars, quotaVars, dispatchVars, confirmVars, otherVars>>

\* tts_worker, lines 78-92: engine.say and engine.runAndWait return or raise,
\* then task_done()
WorkerSpeak ==
    /\ worker_pc = "Speaking"
    /\ \E outcome \in SynthesisOutcomes :
          spoken' = IF outcome = "spoken" THEN Append(spoken, worker_item) ELSE spoken
    /\ unfinished_tasks' = unfinished_tasks - 1
    /\ worker_item' = <<>>
    /\ worker_pc' = "Waiting"
    /\ UNCHANGED <<now, tts_queue, put_count, engine_available, taken, shutdown_pc, trackerVars,
                   adapterVars, registryVars, quotaVars, dispatchVars, confirmVars, otherVars>>

\* shutdown(), lines 930-936: is_running cleared and the shutdown message
\* spoken; nothing at all when is_running is already false
ShutdownBegin ==
    /\ shutdown_pc = "NotCalled"
    /\ IF is_running
       THEN /\ is_running' = FALSE
            /\ current_command_spoken_parts' = Speak(Out, MsgShuttingDown).parts
            /\ Put(Speak(Out, MsgShuttingDown).put)
            /\ praxis_state' = ReportedState("Shutdown", pending_confirmation)
            /\ shutdown_pc' = "Begun"
       ELSE /\ shutdown_pc' = "Returned"
            /\ UNCHANGED <<is_running, current_command_spoken_parts, praxis_state, queueVars>>
    /\ UNCHANGED <<now, session_ready, is_muted, disp_pc, clean_input,
                   spoken_messages_during_mute, turn, turns, quotaVars, notPraxis, confirmVars,
                   engine_available, worker_pc, worker_item, taken, spoken>>

\* shutdown(), lines 938-942: the sentinel is put when the worker is alive
ShutdownSignal ==
    /\ shutdown_pc = "Begun"
    /\ IF engine_available /\ worker_pc \in {"Waiting", "Speaking"}
       THEN /\ tts_queue' = Append(tts_queue, <<put_count + 1, TTS_SHUTDOWN_SENTINEL>>)
            /\ unfinished_tasks' = unfinished_tasks + 1
            /\ put_count' = put_count + 1
            /\ shutdown_pc' = "Signalled"
       ELSE /\ shutdown_pc' = "Returned"
            /\ UNCHANGED queueVars
    /\ UNCHANGED <<now, engine_available, worker_pc, worker_item, taken, spoken, trackerVars,
                   adapterVars, registryVars, quotaVars, dispatchVars, confirmVars, otherVars>>

\* shutdown(), lines 945-947: tts_queue.join() is called if the queue is not empty
ShutdownQueueCheck ==
    /\ shutdown_pc = "Signalled"
    /\ shutdown_pc' = IF tts_queue # <<>> THEN "QueueJoin" ELSE "ThreadJoin"
    /\ UNCHANGED <<now, queueVars, engine_available, worker_pc, worker_item, taken, spoken,
                   trackerVars, adapterVars, registryVars, quotaVars, dispatchVars, confirmVars, otherVars>>

\* shutdown(), line 947: tts_queue.join() returns once every entry put has
\* been marked task_done
ShutdownQueueJoin ==
    /\ shutdown_pc = "QueueJoin"
    /\ unfinished_tasks = 0
    /\ shutdown_pc' = "ThreadJoin"
    /\ UNCHANGED <<now, queueVars, engine_available, worker_pc, worker_item, taken, spoken,
                   trackerVars, adapterVars, registryVars, quotaVars, dispatchVars, confirmVars, otherVars>>

\* shutdown(), lines 950-957: tts_worker_thread_instance.join(timeout=5) returns
\* when the worker has finished or after 5 seconds
ShutdownThreadJoin ==
    /\ shutdown_pc = "ThreadJoin"
    /\ shutdown_pc' = "Returned"
    /\ UNCHANGED <<now, queueVars, engine_available, worker_pc, worker_item, taken, spoken,
                   trackerVars, adapterVars, registryVars, quotaVars, dispatchVars, confirmVars, otherVars>>

\* an initialised session with the engine available: the worker thread was
\* started by PraxisCore.__init__ and the greeting of initialize_user_session
\* is on the queue
InitSpeech ==
    /\ now = 0
    /\ ConfirmIdle /\ OthersIdle
    /\ TrackerIdle /\ AdapterIdle /\ RegistryIdle
    /\ rpm_limit = 15 /\ tpm_limit = 1000000 /\ rpd_limit = 1500
    /\ request_timestamps_rpm = <<>>
    /\ token_usage_tpm = <<>>
    /\ daily_request_count = 0
    /\ current_day_for_rpd = 0
    /\ today = 0
    /\ usage_log = <<>>
    /\ can_request = <<>>
    /\ session_ready = TRUE
    /\ is_running = TRUE
    /\ is_muted = FALSE
    /\ disp_pc = "Idle"
    /\ clean_input = ""
    /\ current_command_spoken_parts = Greeting
    /\ spoken_messages_during_mute = <<>>
    /\ praxis_state = "Idle"
    /\ turn = NoTurn
    /\ turns = 0
    /\ engine_available = TRUE
    /\ tts_queue = [i \in 1..Len(Greeting) |-> <<i, Greeting[i]>>]
    /\ unfinished_tasks = Len(Greeting)
    /\ put_count = Len(Greeting)
    /\ worker_pc = "Waiting"
    /\ worker_item = <<>>
    /\ taken = <<>>
    /\ spoken = <<>>
    /\ shutdown_pc = "NotCalled"

\* the steps of the thread that runs process_command_text
DispatcherStep ==
    \/ \E user_input \in UserInputs : TurnBegin(user_input)
    \/ TurnGate
    \/ TurnCall

\* the steps of the thread that runs shutdown()
ShutdownStep ==
    \/ ShutdownBegin
    \/ ShutdownSignal
    \/ ShutdownQueueCheck
    \/ ShutdownQueueJoin
    \/ ShutdownThreadJoin

SpeechNext ==
    \/ DispatcherStep
    \/ WorkerTake
    \/ WorkerSpeak
    \/ ShutdownStep

SpecSpeech == InitSpeech /\ [][SpeechNext]_vars

\* the worker thread is scheduled and speech synthesis returns; shutdown() and
\* process_command_text run on threads of their own
SpecSpeechFair ==
    /\ InitSpeech
    /\ [][SpeechNext]_vars
    /\ WF_vars(WorkerTake)
    /\ WF_vars(WorkerSpeak)
    /\ WF_vars(ShutdownSignal)
    /\ WF_vars(ShutdownQueueCheck)
    /\ WF_vars(ShutdownQueueJoin)
    /\ WF_vars(ShutdownThreadJoin)
    /\ WF_vars(TurnGate)
    /\ WF_vars(TurnCall)

\* only the thread of process_command_text is sure to run: the worker may stay
\* inside engine.runAndWait for ever
SpecSpeechTurnFair ==
    /\ InitSpeech
    /\ [][SpeechNext]_vars
    /\ WF_vars(TurnGate)
    /\ WF_vars(TurnCall)

\* ------------------------------------------------------------------------
\* C17: the order of speech
\* ------------------------------------------------------------------------
\* C17: the worker speaks utterances in the order they were put on the queue,
\* each at most once, whatever the interleaving of the threads that speak: the
\* put numbers of the spoken entries increase strictly, and each is an
\* utterance that was put.
C17_SpokenInPutOrder ==
    /\ \A i, j \in DOMAIN spoken : i < j => spoken[i][1] < spoken[j][1]
    /\ \A i \in DOMAIN spoken : spoken[i][1] \in 1..put_count /\ ~IsSentinel(spoken[i])

\* C17 witness: utterances of the session start, of the dispatcher and of
\* shutdown() were spoken, the shutdown message put before the dispatcher's
C17_Witness ==
    /\ Len(spoken) >= 3
    /\ \E i, j \in DOMAIN spoken :
          /\ i < j
          /\ spoken[i][2] = MsgShuttingDown
          /\ spoken[j][2] = MsgCriticalError

\* ------------------------------------------------------------------------
\* C18: speak() does not wait for the worker
\* ------------------------------------------------------------------------
\* C18: a turn of the dispatcher that has begun always runs to completion and
\* returns to Idle, with no assumption that the worker ever leaves speech
\* synthesis.
C18_TurnCompletesWithoutWorker == (disp_pc # "Idle") ~> (disp_pc = "Idle")

\* C18 witness: the worker took the first utterance and is still inside
\* synthesis; meanwhile a whole turn ran, put its utterance and is back at Idle
C18_Witness ==
    /\ worker_pc = "Speaking"
    /\ worker_item[1] = 1
    /\ disp_pc = "Idle"
    /\ turn.outcome = "critical_error"
    /\ \E i \in DOMAIN tts_queue : tts_queue[i][2] = MsgCriticalError

\* ------------------------------------------------------------------------
\* C19: the sentinel
\* ------------------------------------------------------------------------
\* every entry put so far, in the order the worker takes them
EntriesPut == taken \o tts_queue

SentinelQueued == \E i \in DOMAIN tts_queue : IsSentinel(tts_queue[i])

\* the sentinel is behind the shutdown message
SentinelAfterShutdownMessage ==
    \A i \in DOMAIN EntriesPut :
        IsSentinel(EntriesPut[i]) =>
            \E j \in 1..(i - 1) : EntriesPut[j][2] = MsgShuttingDown

\* the worker has exited only on the sentinel, having taken and finished
\* every entry put before it
FinishedAtSentinel ==
    worker_pc = "Finished" =>
        /\ taken # <<>>
        /\ IsSentinel(taken[Len(taken)])
        /\ \A i \in DOMAIN taken : taken[i][1] = i
        /\ worker_item = <<>>
        /\ \A i \in DOMAIN spoken : spoken[i][1] < taken[Len(taken)][1]

C20_ShutdownReturns == (shutdown_pc # "NotCalled") ~> (shutdown_pc = "Returned")

\* ------------------------------------------------------------------------
\* C27: RateLimitTracker, the stored timestamps after a call
\* ------------------------------------------------------------------------
\* a step of the tracker that is a call made at time now (the clock stands)
TrackerCallStep == now' = now

\* every timestamp of the deque lies in the window (t - 60, t]
AllInWindow(reqs, t) ==
    \A i \in DOMAIN reqs : t - time_window_seconds < reqs[i] /\ reqs[i] <= t

\* C27: after any add_request_timestamp, is_limit_exceeded or get_wait_time
\* call made at time now, every stored timestamp t satisfies
\* now - 60 < t <= now, and the count the tracker reports on at that time (the
\* length is_limit_exceeded and get_wait_time compare with the cap after
\* their pruning) is the length of the deque the call left behind.
C27_StoredTimestampsInWindow ==
    [][ TrackerCallStep =>
          /\ AllInWindow(requests', now)
          /\ Len(PruneOldTimestamps(requests', now)) = Len(requests')
          /\ LimitExceeded(requests', rate_limit_rpm, now)
                = AtOrOverLimit(Len(requests'), rate_limit_rpm) ]_vars

\* C27 witness: three timestamps were recorded, the clock advanced, and the
\* call just made left fewer than that in the deque, all inside the window,
\* with the cap reported reached and a wait reported
C27_Witness ==
    /\ Len(recorded) = 3
    /\ requests # <<>>
    /\ Len(requests) < Len(recorded)
    /\ AllInWindow(requests, now)
    /\ everExceeded
    /\ wait_time > 0

\* ------------------------------------------------------------------------
\* C28, C29: the adapter's tracker during a generate call
\* ------------------------------------------------------------------------
\* a step in which _perform_api_call reaches the provider once
AttemptStep == gen_pc = "attempt" /\ Len(attempt_log') = Len(attempt_log) + 1

\* C28 (as claimed): an adapter's tracker receives exactly one record(now) per
\* attempt that reaches the provider, failed and retried attempts included,
\* and none in any other step of generate (throttle waits, backoff sleeps).
C28_OneRecordPerAttempt ==
    [][ HasTracker =>
          Len(recorded') = Len(recorded) + (IF AttemptStep THEN 1 ELSE 0) ]_vars

\* C29 (as claimed): before each provider attempt of a generate call, the
\* first attempt and every retry alike, the adapter checks its tracker (and
\* sleeps for the wait time if the cap is exceeded): the attempt is entered
\* from the throttle check and from nowhere else.
C29_ThrottleCheckBeforeEachAttempt ==
    [][ (gen_pc # "attempt" /\ gen_pc' = "attempt") => gen_pc = "throttle" ]_vars

\* ------------------------------------------------------------------------
\* C30: select_model with a task name that has no profile
\* ------------------------------------------------------------------------
\* C30 (as claimed): select_model with a task name that has no entry in
\* TASK_PROFILES fails with an outcome of its own, which the caller can tell
\* from the None returned when no suitable adapter is found for a known task.
C30_UnknownTaskDistinguished ==
    (selected[1] # "none" /\ selected[1] \notin TaskNames) => selected[2] # None

\* ------------------------------------------------------------------------
\* brain.strip_wake_words (src/brain.py:14-28)
\* ------------------------------------------------------------------------
\* a string is a sequence of characters; the letters of the wake words and
\* their upper-case forms, position by position
LowerLetters == <<"a", "c", "d", "e", "h", "i", "j", "k", "o", "p", "r", "s", "v", "x", "y">>

UpperLetters == <<"A", "C", "D", "E", "H", "I", "J", "K", "O", "P", "R", "S", "V", "X", "Y">>

\* a lower() that leaves every character as it is
LowerCharSame(ch) == ch

\* str.lower() on one character
LowerChar(ch) ==
    IF \E i \in DOMAIN UpperLetters : UpperLetters[i] = ch
    THEN LowerLetters[CHOOSE i \in DOMAIN UpperLetters : UpperLetters[i] = ch]
    ELSE ch

\* str.upper() on one character
UpperChar(ch) ==
    IF \E i \in DOMAIN LowerLetters : LowerLetters[i] = ch
    THEN UpperLetters[CHOOSE i \in DOMAIN LowerLetters : LowerLetters[i] = ch]
    ELSE ch

\* command.lower()
Lowered(str) == [i \in DOMAIN str |-> LowerChar(str[i])]

Uppered(str) == [i \in DOMAIN str |-> UpperChar(str[i])]

Capitalized(str) == [i \in DOMAIN str |-> IF i = 1 THEN UpperChar(str[i]) ELSE str[i]]

Whitespace == {" ", "\t"}

\* str.strip(): leading and trailing whitespace removed
RECURSIVE LStrip(_)
LStrip(str) == IF str # <<>> /\ Head(str) \in Whitespace THEN LStrip(Tail(str)) ELSE str

RECURSIVE RStrip(_)
RStrip(str) ==
    IF str # <<>> /\ Last(str) \in Whitespace THEN RStrip(SubSeq(str, 1, Len(str) - 1)) ELSE str

Strip(str) == RStrip(LStrip(str))

\* str.startswith(prefix)
StartsWith(str, prefix) ==
    Len(str) >= Len(prefix) /\ SubSeq(str, 1, Len(prefix)) = prefix

\* line 19: the wake words, in list order
wake_words ==
    << <<"c", "o", "d", "e", "x">>,
       <<"h", "e", "y", " ", "c", "o", "d", "e", "x">>,
       <<"o", "k", "a", "y", " ", "c", "o", "d", "e", "x">>,
       <<"j", "a", "r", "v", "i", "s">>,
       <<"p", "r", "a", "x", "i", "s">>,
       <<"h", "e", "y", " ", "p", "r", "a", "x", "i", "s">>,
       <<"o", "k", "a", "y", " ", "p", "r", "a", "x", "i", "s">> >>

\* strip_wake_words(command): the first wake word of the list the lowered
\* command starts with is cut off the original command, the rest is stripped
strip_wake_words(cmd) ==
    LET command_lower == Lowered(cmd)
        hits == {i \in DOMAIN wake_words : StartsWith(command_lower, wake_words[i])}
    IN  IF hits # {}
        THEN LET wake == wake_words[CHOOSE i \in hits : \A j \in hits : i <= j]
             IN  <<Strip(SubSeq(cmd, Len(wake) + 1, Len(cmd))), TRUE>>
        ELSE <<Strip(cmd), FALSE>>

\* the commands of the model: a wake phrase in lower case, upper case or
\* capitalised, followed by a space and a remainder or by the remainder
\* directly, and commands that start with no wake phrase
MaxRemainder == 2

RemainderChars == {" ", "a", "P"}

Remainders ==
    SeqsUpTo(RemainderChars, MaxRemainder)
      \cup {<<"p", "r", "a", "x", "i", "s">>, <<" ", "j", "a", "r", "v", "i", "s", "\t">>}

WakePhrases ==
    UNION {{wake_words[i], Uppered(wake_words[i]), Capitalized(wake_words[i])} :
             i \in DOMAIN wake_words}

OtherCommands ==
    {<<>>, <<" ">>, <<"h", "e", "y">>, <<" ", "p", "r", "a", "x", "i", "s">>,
     <<"h", "e", "y", " ", "a">>, <<"a", " ", "j", "a", "r", "v", "i", "s">>,
     <<"p", "r", "a", "x">>, <<"\t", "a", "P", " ">>, <<"o", "k", "a", "y", " ">>}

Commands ==
    {w \o <<" ">> \o r : w \in WakePhrases, r \in Remainders}
      \cup {w \o r : w \in WakePhrases, r \in Remainders}
      \cup OtherCommands

InitWake ==
    /\ now = 0
    /\ ProgramIdle
    /\ wake_input \in Commands
    /\ wake_result = <<>>
    /\ KbIdle /\ EmotionIdle /\ VoiceIdle /\ LateIdle

\* clean_input, _ = strip_wake_words(user_input)
StripWakeWordsCall ==
    /\ wake_result = <<>>
    /\ wake_result' = strip_wake_words(wake_input)
    /\ UNCHANGED <<now, wake_input, notOthers, lateVars, kbVars, emotionVars, voiceVars>>

WakeNext == StripWakeWordsCall

SpecWake == InitWake /\ [][WakeNext]_vars

\* ------------------------------------------------------------------------
\* C24: wake-phrase stripping
\* ------------------------------------------------------------------------
\* text is str with its surrounding whitespace removed
IsTrimmed(text, str) ==
    /\ text = <<>> \/ (Head(text) \notin Whitespace /\ Last(text) \notin Whitespace)
    /\ \E i \in 0..Len(str) : \E j \in i..Len(str) :
         /\ text = SubSeq(str, i + 1, j)
         /\ \A k \in (1..i) \cup ((j + 1)..Len(str)) : str[k] \in Whitespace

\* the command starts with a wake phrase, whatever the case of its letters
StartsWithWakePhrase(cmd) ==
    \E i \in DOMAIN wake_words :
        /\ Len(cmd) >= Len(wake_words[i])
        /\ \A k \in DOMAIN wake_words[i] :
             cmd[k] \in {wake_words[i][k], UpperChar(wake_words[i][k])}

\* C24: for every recognized wake phrase w, in any case, and remainder r,
\* strip_wake_words(w + ' ' + r) returns (r with its surrounding whitespace
\* removed, true); an input that does not start with any wake phrase is
\* returned trimmed with the flag false.
C24_WakePhraseStripped ==
    wake_result # <<>> =>
        /\ \A w \in WakePhrases : \A r \in Remainders :
              wake_input = w \o <<" ">> \o r =>
                  /\ wake_result[2] = TRUE
                  /\ IsTrimmed(wake_result[1], r)
        /\ ~StartsWithWakePhrase(wake_input) =>
              /\ wake_result[2] = FALSE
              /\ IsTrimmed(wake_result[1], wake_input)

\* C24 witness: "Okay praxis" in mixed case, followed by a space and a
\* remainder with whitespace at both ends, was stripped to the remainder's core
C24_Witness ==
    /\ wake_input = Capitalized(wake_words[7]) \o <<" ">> \o <<" ", "j", "a", "r", "v", "i", "s", "\t">>
    /\ wake_result = <<<<"j", "a", "r", "v", "i", "s">>, TRUE>>

\* ------------------------------------------------------------------------
\* knowledge_base: user profile items (src/knowledge_base.py:58-67, 344-429)
\* ------------------------------------------------------------------------
\* the arguments of the model; "" is the empty user name, which all([...]) rejects
UserNames == {"", "test_user_for_skill", "alice"}

ItemCategories == {"preference"}

ItemKeys == {"favorite_color", "hobby"}

ItemValues == {"cerulean", "teal"}

\* the calls that change the table, per behaviour
MaxKbWrites == 3

\* not all([user_name, item_category, item_key])
Falsy(str) == str = ""

\* the rows a WHERE user_name = ? AND item_category = ? AND item_key = ? selects
Matching(table, u, c, k) ==
    {row \in table : row.user_name = u /\ row.item_category = c /\ row.item_key = k}

\* an INSERT that leaves an existing row as it is (ON CONFLICT DO NOTHING)
UpsertKeepsOld(table, u, c, k, v, ts) ==
    IF Matching(table, u, c, k) # {} THEN table
    ELSE table \cup {[user_name |-> u, item_category |-> c, item_key |-> k,
                      item_value |-> v, last_updated_timestamp |-> ts]}

\* INSERT ... ON CONFLICT(user_name, item_category, item_key) DO UPDATE SET
\* item_value, last_updated_timestamp
Upsert(table, u, c, k, v, ts) ==
    (table \ Matching(table, u, c, k))
      \cup {[user_name |-> u, item_category |-> c, item_key |-> k,
             item_value |-> v, last_updated_timestamp |-> ts]}

\* SELECT item_value ... ; row['item_value'] if row else None
SelectItemValue(table, u, c, k) ==
    IF Matching(table, u, c, k) = {} THEN None
    ELSE (CHOOSE row \in Matching(table, u, c, k) : TRUE).item_value

\* DELETE FROM user_profile_items WHERE ...
DeleteRows(table, u, c, k) == table \ Matching(table, u, c, k)

KbCall(op, u, c, k, v, returned) ==
    [op |-> op, key |-> <<u, c, k>>, value |-> v, returned |-> returned]

\* store_user_profile_item(u, c, k, v); db_ok is false when sqlite3 raises
StoreUserProfileItem(u, c, k, v, db_ok) ==
    /\ Len(kb_log) < MaxKbWrites
    /\ IF Falsy(u) \/ Falsy(c) \/ Falsy(k) \/ ~db_ok
       THEN /\ kb_result' = KbCall("store", u, c, k, v, <<FALSE>>)
            /\ UNCHANGED <<user_profile_items, kb_log>>
       ELSE /\ user_profile_items' = Upsert(user_profile_items, u, c, k, v, now)
            /\ kb_result' = KbCall("store", u, c, k, v, <<TRUE>>)
            /\ kb_log' = Append(kb_log, kb_result')
    /\ UNCHANGED <<now, notOthers, lateVars, wakeVars, emotionVars, voiceVars>>

\* get_user_profile_item(u, c, k): the value, or None when there is no row,
\* an argument is empty or sqlite3 raises
GetUserProfileItem(u, c, k, db_ok) ==
    /\ kb_result' =
          IF Falsy(u) \/ Falsy(c) \/ Falsy(k) THEN KbCall("get", u, c, k, None, <<None, "rejected">>)
          ELSE IF ~db_ok THEN KbCall("get", u, c, k, None, <<None, "sqlite3.Error">>)
          ELSE KbCall("get", u, c, k, None,
                      <<SelectItemValue(user_profile_items, u, c, k), "answered">>)
    /\ UNCHANGED <<now, user_profile_items, kb_log, notOthers, lateVars, wakeVars, emotionVars, voiceVars>>

\* delete_user_profile_item(u, c, k): True also when no row matched
DeleteUserProfileItem(u, c, k, db_ok) ==
    /\ Len(kb_log) < MaxKbWrites
    /\ IF Falsy(u) \/ Falsy(c) \/ Falsy(k) \/ ~db_ok
       THEN /\ kb_result' = KbCall("delete", u, c, k, None, <<FALSE>>)
            /\ UNCHANGED <<user_profile_items, kb_log>>
       ELSE /\ user_profile_items' = DeleteRows(user_profile_items, u, c, k)
            /\ kb_result' = KbCall("delete", u, c, k, None, <<TRUE>>)
            /\ kb_log' = Append(kb_log, kb_result')
    /\ UNCHANGED <<now, notOthers, lateVars, wakeVars, emotionVars, voiceVars>>

\* init_db: the table exists and is empty
InitKb ==
    /\ now = 0
    /\ ProgramIdle
    /\ WakeIdle /\ EmotionIdle /\ VoiceIdle /\ LateIdle
    /\ user_profile_items = {}
    /\ kb_result = <<>>
    /\ kb_log = <<>>

KbNext ==
    \E u \in UserNames, c \in ItemCategories, k \in ItemKeys, db_ok \in BOOLEAN :
        \/ \E v \in ItemValues : StoreUserProfileItem(u, c, k, v, db_ok)
        \/ GetUserProfileItem(u, c, k, db_ok)
        \/ DeleteUserProfileItem(u, c, k, db_ok)

SpecKb == InitKb /\ [][KbNext]_vars

\* ------------------------------------------------------------------------
\* C25: profile round trip
\* ------------------------------------------------------------------------
\* the store and delete calls on a key that returned True, by position
WritesTo(key) == {i \in DOMAIN kb_log : kb_log[i].key = key}

\* what the calls made so far say the key holds: the value of the latest
\* store that succeeded, none if a delete came after it or nothing was stored
LatestStored(key) ==
    IF WritesTo(key) = {} THEN None
    ELSE LET latest == kb_log[CHOOSE i \in WritesTo(key) : \A j \in WritesTo(key) : j <= i]
         IN  IF latest.op = "store" THEN latest.value ELSE None

\* C25: after store_user_profile_item(u, c, k, v) succeeds,
\* get_user_profile_item(u, c, k) returns v, the latest value stored for that
\* key; after delete_user_profile_item(u, c, k) it returns none; stores and
\* deletes under other keys do not change what it returns.
C25_ProfileRoundTrip ==
    (kb_result # <<>> /\ kb_result.op = "get" /\ kb_result.returned[2] = "answered")
        => kb_result.returned[1] = LatestStored(kb_result.key)

\* C25 witness: a value was stored under favorite_color, replaced by a second
\* store, another key was deleted, and get returns the second value
C25_Witness ==
    /\ Len(kb_log) = 3
    /\ kb_log[1].op = "store" /\ kb_log[1].key = <<"test_user_for_skill", "preference", "favorite_color">>
    /\ kb_log[1].value = "cerulean"
    /\ kb_log[2].op = "store" /\ kb_log[2].key = kb_log[1].key /\ kb_log[2].value = "teal"
    /\ kb_log[3].op = "delete" /\ kb_log[3].key = <<"test_user_for_skill", "preference", "hobby">>
    /\ kb_result.op = "get" /\ kb_result.key = kb_log[1].key
    /\ kb_result.returned = <<"teal", "answered">>

\* ------------------------------------------------------------------------
\* abilities/emotion_skill (src/abilities/emotion_skill.py:6-178)
\* ------------------------------------------------------------------------
MAX_EMOTIONAL_SOPHISTICATION_LEVEL == 3

INTERACTIONS_PER_EVOLUTION_STEP == 5

\* calls per behaviour
MaxEmotionCalls == 8

\* the keys of EMOTIONAL_RESPONSES; each has level_1, level_2 and level_3 lists
\* of three responses
KnownEmotions == {"happy", "sad", "curious", "surprised", "neutral"}

ResponseChoices == 1..3

\* the emotion arguments of the model, and emotion.lower() on them
EmotionArguments == {"happy", "Sad", "excited"}

EmotionLower(emotion) == IF emotion = "Sad" THEN "sad" ELSE emotion

CustomMessages == {None, "This is a custom emotional statement."}

LevelsToIncrease == 0..2

MsgEvolved(level) == <<"I feel my understanding of expression is... expanding.", level>>

MsgManuallyAdvanced(level) == <<"My emotional expression protocols have been manually advanced.", level>>

MsgAtPeak == <<"I believe I'm already at my peak emotional sophistication, sir", MAX_EMOTIONAL_SOPHISTICATION_LEVEL>>

MsgUnknownEmotion(emotion) == <<"I'm not quite sure how to express", emotion>>

\* an evolution without the test against the maximum
AttemptEmotionalEvolutionUncapped(level) ==
    [level |-> level + 1, spoken |-> <<MsgEvolved(level + 1)>>]

\* _attempt_emotional_evolution: one level up while below the maximum (the
\* counter is reset by the caller's action in both branches)
AttemptEmotionalEvolution(level) ==
    IF level < MAX_EMOTIONAL_SOPHISTICATION_LEVEL
    THEN [level |-> level + 1, spoken |-> <<MsgEvolved(level + 1)>>]
    ELSE [level |-> level, spoken |-> <<>>]

\* the loop of force_emotional_evolution, levels_to_increase iterations left
RECURSIVE ForceLoop(_, _, _)
ForceLoop(level, levels_left, said) ==
    IF levels_left <= 0 THEN [level |-> level, spoken |-> said]
    ELSE IF level < MAX_EMOTIONAL_SOPHISTICATION_LEVEL
         THEN ForceLoop(level + 1, levels_left - 1, Append(said, MsgManuallyAdvanced(level + 1)))
         ELSE [level |-> level, spoken |-> Append(said, MsgAtPeak)]

\* what express_emotion speaks after the counter step: the custom message,
\* one of the responses of the current level, or the fallback for an emotion
\* that is no key of EMOTIONAL_RESPONSES
Expression(emotion, custom_message, level, choice) ==
    IF custom_message # None THEN custom_message
    ELSE IF EmotionLower(emotion) \in KnownEmotions
         THEN <<"response", EmotionLower(emotion), level, choice>>
         ELSE MsgUnknownEmotion(emotion)

\* express_emotion(context, emotion, custom_message)
ExpressEmotion(emotion, custom_message, choice) ==
    /\ Len(emotion_calls) < MaxEmotionCalls
    /\ LET evolved == IF interaction_counter + 1 >= INTERACTIONS_PER_EVOLUTION_STEP
                      THEN AttemptEmotionalEvolution(current_emotional_sophistication_level)
                      ELSE [level |-> current_emotional_sophistication_level, spoken |-> <<>>]
       IN  /\ interaction_counter' =
                 IF interaction_counter + 1 >= INTERACTIONS_PER_EVOLUTION_STEP
                 THEN 0 ELSE interaction_counter + 1
           /\ current_emotional_sophistication_level' = evolved.level
           /\ emotion_spoken' =
                 Append(evolved.spoken, Expression(emotion, custom_message, evolved.level, choice))
    /\ emotion_calls' = Append(emotion_calls, "express")
    /\ UNCHANGED <<now, notOthers, lateVars, wakeVars, kbVars, voiceVars>>

\* force_emotional_evolution(context, levels_to_increase)
ForceEmotionalEvolution(levels_to_increase) ==
    /\ Len(emotion_calls) < MaxEmotionCalls
    /\ LET forced == ForceLoop(current_emotional_sophistication_level, levels_to_increase, <<>>)
       IN  /\ current_emotional_sophistication_level' = forced.level
           /\ emotion_spoken' = forced.spoken
    /\ interaction_counter' = 0
    /\ emotion_calls' = Append(emotion_calls, "force")
    /\ UNCHANGED <<now, notOthers, lateVars, wakeVars, kbVars, voiceVars>>

InitEmotion ==
    /\ now = 0
    /\ ProgramIdle
    /\ WakeIdle /\ KbIdle /\ VoiceIdle /\ LateIdle
    /\ EmotionIdle

EmotionNext ==
    \/ \E emotion \in EmotionArguments, custom_message \in CustomMessages,
          choice \in ResponseChoices : ExpressEmotion(emotion, custom_message, choice)
    \/ \E levels_to_increase \in LevelsToIncrease : ForceEmotionalEvolution(levels_to_increase)

SpecEmotion == InitEmotion /\ [][EmotionNext]_vars

\* ------------------------------------------------------------------------
\* C26: emotional sophistication level
\* ------------------------------------------------------------------------
\* the number of express_emotion calls at the end of the history since the
\* last force_emotional_evolution call
RECURSIVE TrailingExpress(_)
TrailingExpress(calls) ==
    IF calls = <<>> \/ Last(calls) # "express" THEN 0
    ELSE 1 + TrailingExpress(SubSeq(calls, 1, Len(calls) - 1))

\* C26: over any sequence of express_emotion and force_emotional_evolution
\* calls the level stays within 1..MAX_EMOTIONAL_SOPHISTICATION_LEVEL and
\* never decreases; every INTERACTIONS_PER_EVOLUTION_STEP-th express_emotion
\* call since the last counter reset raises the level by exactly one while
\* below the maximum (and no other express_emotion call changes it); forcing
\* evolution at the maximum leaves the level unchanged.
C26_SophisticationLevel ==
    [][ emotion_calls' # emotion_calls =>
          LET level == current_emotional_sophistication_level
              level_after == current_emotional_sophistication_level'
          IN  /\ level_after \in 1..MAX_EMOTIONAL_SOPHISTICATION_LEVEL
              /\ level_after >= level
              /\ Last(emotion_calls') = "express" =>
                    level_after =
                       IF TrailingExpress(emotion_calls') % INTERACTIONS_PER_EVOLUTION_STEP = 0
                          /\ level < MAX_EMOTIONAL_SOPHISTICATION_LEVEL
                       THEN level + 1 ELSE level
              /\ (Last(emotion_calls') = "force"
                    /\ level = MAX_EMOTIONAL_SOPHISTICATION_LEVEL) => level_after = level ]_vars

\* C26 witness: five express_emotion calls from the start: the fifth raised
\* the level to 2, announced it and reset the counter
C26_Witness ==
    /\ Len(emotion_calls) = 5
    /\ TrailingExpress(emotion_calls) = 5
    /\ current_emotional_sophistication_level = 2
    /\ interaction_counter = 0
    /\ emotion_spoken[1] = MsgEvolved(2)

\* ------------------------------------------------------------------------
\* PraxisCore: voice input (src/main.py:274-312, 346-348, 827-854, 883-911)
\* ------------------------------------------------------------------------
\* listen threads alive at once, and commands heard, per behaviour
MaxListenThreads == 3

MaxHeard == 2

ToModes == {None, "voice", "text"}

\* what listen_for_command returns: the recognised text, or None
CommandTexts == {None, "what time is it", "praxis mute"}

\* the mode, the live listen threads and what was spoken, during one call
VoiceState == [mode |-> input_mode, threads |-> listen_threads, spoken |-> <<>>]

Say(st, text) == [st EXCEPT !.spoken = Append(@, text)]

\* voice_thread.start(), lines 853-854, and the entry of _listen_in_thread,
\* lines 828-831: without a skill context the thread speaks and returns
StartListenThread(st) ==
    IF ~session_ready THEN Say(st, "Voice components not ready.")
    ELSE [st EXCEPT !.threads = @ + 1]

RECURSIVE StartVoiceInputFrom(_)
RECURSIVE ToggleInputModeFrom(_, _)
\* start_voice_input(), lines 842-854
StartVoiceInputFrom(st) ==
    IF ~sr_available THEN Say(st, "Voice input is not available on this system.")
    ELSE IF st.mode # "voice"
         THEN LET toggled == ToggleInputModeFrom(st, "voice")
              IN  IF toggled.mode # "voice" THEN toggled ELSE StartListenThread(toggled)
         ELSE StartListenThread(st)

\* toggle_input_mode_core(to_mode), lines 883-911
ToggleInputModeFrom(st, to_mode) ==
    IF ~session_ready THEN st
    ELSE IF to_mode # None /\ to_mode = "voice" /\ ~sr_available
         THEN Say(st, "Cannot switch to voice mode, speech recognition is not available/ready.")
    ELSE IF to_mode = None /\ st.mode = "text" /\ ~sr_available
         THEN Say(st, "Voice input is not available to toggle to.")
    ELSE LET mode == IF to_mode # None THEN to_mode
                     ELSE IF st.mode = "text" THEN "voice" ELSE "text"
             switched == Say([st EXCEPT !.mode = mode],
                             IF mode = "voice" THEN "Input mode switched to voice."
                             ELSE "Input mode switched to text.")
         IN  IF mode = "voice" /\ is_running /\ (to_mode = "voice" \/ to_mode = None)
             THEN StartVoiceInputFrom(switched)
             ELSE switched

\* the voice state st a call leaves behind is written back
VoiceStateAfter(st) ==
    /\ st.threads <= MaxListenThreads
    /\ input_mode' = st.mode
    /\ listen_threads' = st.threads
    /\ voice_spoken' = st.spoken

\* a call of start_voice_input()
StartVoiceInput ==
    /\ VoiceStateAfter(StartVoiceInputFrom(VoiceState))
    /\ UNCHANGED <<now, sr_available, heard, notOthers, lateVars, wakeVars, kbVars, emotionVars>>

\* a call of toggle_input_mode_core(to_mode)
ToggleInputModeCore(to_mode) ==
    /\ VoiceStateAfter(ToggleInputModeFrom(VoiceState, to_mode))
    /\ UNCHANGED <<now, sr_available, heard, notOthers, lateVars, wakeVars, kbVars, emotionVars>>

\* a listen thread comes back from listen_for_command and, with a text and
\* is_running, hands it to process_command_text; then the thread ends
ListenReturn(command_text) ==
    /\ listen_threads > 0
    /\ listen_threads' = listen_threads - 1
    /\ IF command_text = None
       THEN /\ voice_spoken' = <<"Listening...", "I didn't hear anything.">>
            /\ UNCHANGED heard
       ELSE /\ Len(heard) < MaxHeard
            /\ voice_spoken' = <<"Listening...", "Recognizing...">>
            /\ heard' = IF is_running THEN Append(heard, command_text) ELSE heard
    /\ UNCHANGED <<now, sr_available, input_mode, notOthers, lateVars, wakeVars, kbVars, emotionVars>>

\* skills/system_control_skill.py, set_input_mode_voice with the flag ignored
ModeAfterSetVoiceUnchecked(mode, available) == "voice"

\* skills/system_control_skill.py:14-26, set_input_mode_voice: the mode it
\* leaves, given context.speech_recognition_available (main.py:558)
ModeAfterSetVoice(mode, available) ==
    IF ~available THEN mode ELSE "voice"

\* what set_input_mode_voice says
SaidBySetVoice(mode, available) ==
    IF ~available THEN "I'm sorry, voice input is currently unavailable on this system."
    ELSE IF mode = "voice" THEN "I am already in voice input mode, sir."
    ELSE "Understood. Switching to voice input mode. I'll be listening."

\* what set_input_mode_text says (lines 5-12)
SaidBySetText(mode) ==
    IF mode = "text" THEN "I am already in text input mode, sir."
    ELSE "Understood. Switching to text input mode."

\* the skill set_input_mode_text(context), lines 5-12
SetInputModeText ==
    /\ session_ready
    /\ input_mode' = "text"
    /\ voice_spoken' = <<SaidBySetText(input_mode)>>
    /\ UNCHANGED <<now, sr_available, listen_threads, heard, notOthers, lateVars, wakeVars, kbVars,
                   emotionVars>>

\* the skill set_input_mode_voice(context), lines 14-26
SetInputModeVoice ==
    /\ session_ready
    /\ input_mode' = ModeAfterSetVoice(input_mode, sr_available)
    /\ voice_spoken' = <<SaidBySetVoice(input_mode, sr_available)>>
    /\ UNCHANGED <<now, sr_available, listen_threads, heard, notOthers, lateVars, wakeVars, kbVars,
                   emotionVars>>

\* _test_skill(context), lines 28-55, run by load_skills: text mode is set and
\* asserted with its "Switching" message (an AssertionError ends the test
\* there when the mode already was text), then set_input_mode_voice is called
\* and the original mode is put back (line 53)
ModeAfterTestSkill(mode, available) ==
    IF SaidBySetText(mode) # "Understood. Switching to text input mode."
    THEN "text"
    ELSE LET tried == ModeAfterSetVoice("text", available)
         IN  IF tried = (IF available THEN "voice" ELSE "text") THEN mode ELSE tried

\* load_skills runs _test_skill of system_control_skill (main.py:203-214)
TestSkill ==
    /\ input_mode' = ModeAfterTestSkill(input_mode, sr_available)
    /\ voice_spoken' = IF input_mode = "text" THEN <<SaidBySetText(input_mode)>>
                       ELSE <<SaidBySetText(input_mode), SaidBySetVoice("text", sr_available)>>
    /\ UNCHANGED <<now, sr_available, listen_threads, heard, notOthers, lateVars, wakeVars, kbVars,
                   emotionVars>>

\* PraxisCore.__init__, lines 346-348: voice mode when speech recognition is
\* there; the user session may or may not have been initialised yet
InitVoice ==
    /\ now = 0
    /\ TrackerIdle /\ AdapterIdle /\ RegistryIdle /\ QuotaIdle /\ ConfirmIdle /\ SpeechIdle
    /\ WakeIdle /\ KbIdle /\ EmotionIdle /\ LateIdle
    /\ session_ready \in BOOLEAN
    /\ is_running = TRUE
    /\ is_muted = FALSE
    /\ disp_pc = "Idle"
    /\ clean_input = ""
    /\ current_command_spoken_parts = <<>>
    /\ spoken_messages_during_mute = <<>>
    /\ praxis_state = "Idle"
    /\ turn = NoTurn
    /\ turns = 0
    /\ sr_available \in BOOLEAN
    /\ input_mode = IF sr_available THEN "voice" ELSE "text"
    /\ listen_threads = 0
    /\ voice_spoken = <<>>
    /\ heard = <<>>

VoiceNext ==
    \/ StartVoiceInput
    \/ \E to_mode \in ToModes : ToggleInputModeCore(to_mode)
    \/ \E command_text \in CommandTexts : ListenReturn(command_text)
    \/ SetInputModeText
    \/ SetInputModeVoice
    \/ TestSkill

SpecVoice == InitVoice /\ [][VoiceNext]_vars

\* ------------------------------------------------------------------------
\* C21: one listen cycle at a time
\* ------------------------------------------------------------------------
\* C21 (as claimed): at most one voice-capture listen cycle runs at any time,
\* for every sequence of start_voice_input and toggle_input_mode_core calls,
\* start_voice_input called while the mode is text included.
C21_AtMostOneListenCycle == listen_threads <= 1

\* ------------------------------------------------------------------------
\* C22, C23: the failure paths of a turn and the record of a handler's outcome
\* ------------------------------------------------------------------------
\* lines 665, 703-708, 737-748, 751-755, 777: is the message one of the
\* explanations the dispatcher itself speaks when a turn fails
IsExplanation(msg) ==
    \/ msg \in {MsgCriticalError, MsgCoreTrouble, MsgFallbackPrompt}
    \/ \E skill \in SKILLS : msg \in {MsgSkillArguments(skill), MsgSkillError(skill)}
    \/ Len(msg) = 3 /\ msg = RateLimitMessage(msg[2])

\* the explanations among the parts spoken for the current command
Explanations(parts) == {i \in DOMAIN parts : IsExplanation(parts[i])}

\* process_command_text returns (lines 666, 756, 764): the step that ends a turn
\* the dispatcher had begun
TurnEnds == disp_pc # "Idle" /\ disp_pc' = "Idle"

\* the turn that ends is one of the failing turns: the quota check refused it,
\* the call of the model failed, its result could not be used or named no
\* skill, or the handler returned False or raised
FailingTurnEnds ==
    /\ TurnEnds
    /\ \/ turn'.outcome \in {"rate_limited", "critical_error", "core_error", "fallback"}
       \/ /\ turn'.outcome = "skill"
          /\ Len(invocations') = Len(invocations) + 1
          /\ invocations'[Len(invocations')].outcome \in {"False", "TypeError", "Exception"}

DayRolloverReset == current_day_for_rpd' # current_day_for_rpd

\* C31: the day-rollover reset changes only daily_request_count (to 0) and the
\* stored UTC day (to today): the rolling RPM timestamp deque and the rolling
\* TPM deque are left unchanged by it, as is everything else.
C31_ResetLeavesRollingWindows ==
    [][DayRolloverReset =>
          /\ request_timestamps_rpm' = request_timestamps_rpm
          /\ token_usage_tpm' = token_usage_tpm
          /\ daily_request_count' = 0
          /\ current_day_for_rpd' = today
          /\ UNCHANGED <<now, rpm_limit, tpm_limit, rpd_limit, today, usage_log, can_request>>]_vars

\* C31 witness: the day has just been reset (no request counted on the stored
\* day, which is today) and both rolling deques still hold the entries of
\* requests recorded before the reset
C31_Witness ==
    /\ current_day_for_rpd = today
    /\ today > 0
    /\ daily_request_count = 0
    /\ request_timestamps_rpm # <<>>
    /\ token_usage_tpm # <<>>
    /\ Len(usage_log) > 0

\* ------------------------------------------------------------------------
\* C32: work started after is_running has become False
\* ------------------------------------------------------------------------
\* line 659 is reached: the dispatcher goes on to call the model
ModelCallStarts == disp_pc # "Calling" /\ disp_pc' = "Calling"

\* a skill function is called (lines 691, 801, 873-876)
HandlerInvoked == Len(invocations') > Len(invocations)

\* C32 (as claimed): once is_running has become False (shutdown begun or exit
\* command processed), no new work is started: no later dispatcher entry makes
\* a model call or invokes a handler.
C32_NoNewWorkAfterStop ==
    [][~is_running => (~ModelCallStarts /\ ~HandlerInvoked)]_vars

C34_VoiceModeOnlyWithSpeechRecognition ==
    /\ [](input_mode = "voice" => sr_available)
    /\ [][~sr_available => input_mode' = input_mode]_vars

\* C34 witness: without speech recognition, set_input_mode_voice has just
\* refused and the mode is text
C34_Witness ==
    /\ ~sr_available
    /\ session_ready
    /\ input_mode = "text"
    /\ voice_spoken = <<SaidBySetVoice("text", FALSE)>>

\* ------------------------------------------------------------------------
\* process_command_text on two threads (src/main.py:603-669, src/gui.py:303,
\* src/main.py:853-854)
\* ------------------------------------------------------------------------
MaxAdmitted == 3
\* turns admitted per behaviour

\* everything but the clock, the quota fields and the threads
notRace == <<trackerVars, adapterVars, registryVars, dispatchVars, confirmVars, speechVars,
             wakeVars, kbVars, emotionVars, voiceVars, provVars, metricVars>>

\* lines 648-654 on thread t: the day check, _can_make_request, and the
\* return when it refuses; an admitted thread goes on to the call of line 659
ThreadGate(t) ==
    /\ thread_pc[t] = "idle"
    /\ Len(admitted_log) < MaxAdmitted
    /\ LET reset == DailyAfterReset(daily_request_count, current_day_for_rpd, today)
           result == Gate(request_timestamps_rpm, token_usage_tpm, reset[1], now)
       IN
       /\ daily_request_count' = reset[1]
       /\ current_day_for_rpd' = reset[2]
       /\ request_timestamps_rpm' = CleanRpm(request_timestamps_rpm, now)
       /\ token_usage_tpm' = CleanTpm(token_usage_tpm, now)
       /\ can_request' = result
       /\ thread_pc' = IF result[1] THEN [thread_pc EXCEPT ![t] = "calling"] ELSE thread_pc
       /\ admitted_log' = IF result[1] THEN Append(admitted_log, now) ELSE admitted_log
    /\ UNCHANGED <<now, rpm_limit, tpm_limit, rpd_limit, today, usage_log, notRace>>

\* lines 659-667 and 749-764 on thread t: the call raises (as the call of line
\* 659 is written it raises TypeError) and the turn ends with nothing recorded
ThreadCallRaises(t) ==
    /\ thread_pc[t] = "calling"
    /\ \E outcome \in ProcessCommandWithLlmOutcomes : outcome = "TypeError"
    /\ thread_pc' = [thread_pc EXCEPT ![t] = "idle"]
    /\ UNCHANGED <<now, quotaVars, admitted_log, notRace>>

\* lines 659-669 on thread t: the call returns and _record_api_usage counts it
ThreadCallReturns(t) ==
    /\ thread_pc[t] = "calling"
    /\ \E u \in ReportedUsages : RecordUsage(u[1], u[2])
    /\ thread_pc' = [thread_pc EXCEPT ![t] = "idle"]
    /\ UNCHANGED <<now, rpm_limit, tpm_limit, rpd_limit, current_day_for_rpd, today,
                   can_request, admitted_log, notRace>>

\* the clock advances
RaceTick ==
    /\ now + TickSeconds <= MaxTime
    /\ now' = now + TickSeconds
    /\ UNCHANGED <<quotaVars, raceVars, notRace>>

InitRace ==
    /\ now = 0
    /\ QuotaInit
    /\ rpm_limit > 0 /\ rpd_limit > 0
    /\ TrackerIdle /\ AdapterIdle /\ RegistryIdle /\ DispatchIdle /\ ConfirmIdle /\ SpeechIdle
    /\ OthersIdle

RaceNext ==
    \/ \E t \in Threads : ThreadGate(t)
    \/ \E t \in Threads : ThreadCallRaises(t)
    \/ \E t \in Threads : ThreadCallReturns(t)
    \/ RaceTick

SpecRace == InitRace /\ [][RaceNext]_vars

\* ------------------------------------------------------------------------
\* C35: the ceilings under concurrent turns
\* ------------------------------------------------------------------------
\* turns admitted by the gate in the 60 seconds ending now
AdmittedInWindow == Cardinality({i \in DOMAIN admitted_log : admitted_log[i] > now - 60})

\* C35 (as claimed): under any interleaving of concurrent dispatcher
\* invocations (a text command thread and a voice-capture thread), the number
\* of turns admitted within any 60-second window never exceeds the RPM ceiling
\* and daily_request_count never exceeds the RPD ceiling.
C35_CeilingsUnderInterleaving ==
    /\ AdmittedInWindow <= rpm_limit
    /\ daily_request_count <= rpd_limit

\* ------------------------------------------------------------------------
\* C36: requests an adapter sends within a window
\* ------------------------------------------------------------------------
\* the seconds tenacity slept between the attempts of the current call: the
\* time from its first attempt to its last
RECURSIVE SleptInBackoff(_)
SleptInBackoff(log) ==
    IF log = <<>> THEN 0
    ELSE (IF log[1][1] = "backoff" THEN log[1][2] ELSE 0) + SleptInBackoff(Tail(log))

\* C36 (as claimed): for an adapter with cap c > 0, the number of requests it
\* sends to its provider within any 60-second window never exceeds c, calls
\* whose attempts fail and are retried included. Stated for the attempts of
\* one generate call, which all lie in the window their backoff sleeps span.
C36_RequestsSentWithinCap ==
    (HasTracker /\ SleptInBackoff(sleep_log) < time_window_seconds)
        => Len(attempt_log) <= rate_limit_rpm

\* ------------------------------------------------------------------------
\* Requests sent to the LLM provider (src/main.py:648-669, 856-881,
\* src/brain.py:203, src/skills/core_skills.py:66, 137,
\* src/skills/proactive_engagement_skill.py:55)
\* ------------------------------------------------------------------------
MaxProviderRequests == 4
\* requests sent to the provider per behaviour

\* everything but the clock, the quota fields and the provider requests
notProv == <<trackerVars, adapterVars, registryVars, dispatchVars, confirmVars, speechVars,
             wakeVars, kbVars, emotionVars, voiceVars, raceVars, metricVars>>

\* n requests are sent at the clock reading t
Sent(log, n, t) == log \o [i \in 1..n |-> t]

\* main.py:648-654: the day check and _can_make_request; a refused turn returns
ProviderTurnGate ==
    /\ prov_pc = "idle"
    /\ LET reset == DailyAfterReset(daily_request_count, current_day_for_rpd, today)
           result == Gate(request_timestamps_rpm, token_usage_tpm, reset[1], now)
       IN
       /\ daily_request_count' = reset[1]
       /\ current_day_for_rpd' = reset[2]
       /\ request_timestamps_rpm' = CleanRpm(request_timestamps_rpm, now)
       /\ token_usage_tpm' = CleanTpm(token_usage_tpm, now)
       /\ can_request' = result
       /\ prov_pc' = IF result[1] THEN "calling" ELSE "idle"
    /\ UNCHANGED <<now, rpm_limit, tpm_limit, rpd_limit, today, usage_log, provider_log, notProv>>

\* main.py:659 as written: the call raises TypeError before brain.py sends
\* anything, and the turn ends (749-764)
ProviderCallRaises ==
    /\ prov_pc = "calling"
    /\ \E outcome \in ProcessCommandWithLlmOutcomes : outcome = "TypeError"
    /\ prov_pc' = "idle"
    /\ UNCHANGED <<now, quotaVars, provider_log, notProv>>

\* main.py:659-669 with the call returning: llm_adapter.generate (brain.py:203)
\* has sent one request per attempt, up to stop_after_attempt; then
\* _record_api_usage counts the call once and the chosen handler runs
ProviderCallReturns ==
    /\ prov_pc = "calling"
    /\ \E attempts \in 1..stop_after_attempt, u \in ReportedUsages :
          /\ Len(provider_log) + attempts <= MaxProviderRequests
          /\ provider_log' = Sent(provider_log, attempts, now)
          /\ RecordUsage(u[1], u[2])
    /\ prov_pc' = "handling"
    /\ UNCHANGED <<now, rpm_limit, tpm_limit, rpd_limit, current_day_for_rpd, today,
                   can_request, notProv>>

\* main.py:691: the handler runs; web_search and search_within_url_content
\* (core_skills.py:66, 137) send a prompt to the model through
\* context.chat_session.send_message, other handlers send nothing
HandlerRuns ==
    /\ prov_pc = "handling"
    /\ \E sends \in 0..1 :
          /\ Len(provider_log) + sends <= MaxProviderRequests
          /\ provider_log' = Sent(provider_log, sends, now)
    /\ prov_pc' = "idle"
    /\ UNCHANGED <<now, quotaVars, notProv>>

\* main.py:873-876: handle_inactivity calls suggest_engagement_topic or
\* attempt_autonomous_skill_learning, which send a prompt to the model
\* (proactive_engagement_skill.py:55, autonomous_learning_agent.py:111)
ProactiveSkillRuns ==
    /\ prov_pc = "idle"
    /\ Len(provider_log) < MaxProviderRequests
    /\ provider_log' = Sent(provider_log, 1, now)
    /\ UNCHANGED <<now, quotaVars, prov_pc, notProv>>

\* the clock advances
ProviderTick ==
    /\ now + TickSeconds <= MaxTime
    /\ now' = now + TickSeconds
    /\ UNCHANGED <<quotaVars, provVars, notProv>>

InitProvider ==
    /\ now = 0
    /\ QuotaInit
    /\ TrackerIdle /\ AdapterIdle /\ RegistryIdle /\ DispatchIdle /\ ConfirmIdle /\ SpeechIdle
    /\ OthersIdle

ProviderNext ==
    \/ ProviderTurnGate
    \/ ProviderCallRaises
    \/ ProviderCallReturns
    \/ HandlerRuns
    \/ ProactiveSkillRuns
    \/ ProviderTick

SpecProvider == InitProvider /\ [][ProviderNext]_vars

\* ------------------------------------------------------------------------
\* C37: provider requests and the quota tracker
\* ------------------------------------------------------------------------
\* requests sent to the provider in the 60 seconds ending now
ProviderRequestsInWindow ==
    Cardinality({i \in DOMAIN provider_log : provider_log[i] >= now - 60})

\* C37 (as claimed): every request sent to the LLM provider is gated and
\* counted by the orchestrator quota tracker: the rolling RPM count (what
\* get_current_rpm returns) is never less than the number of provider requests
\* issued in the trailing 60 seconds, adapter retries and model calls made
\* inside skill handlers included.
C37_ProviderRequestsCounted ==
    Len(CleanRpm(request_timestamps_rpm, now)) >= ProviderRequestsInWindow

\* ------------------------------------------------------------------------
\* C38: the worker after the dispatcher has stopped
\* ------------------------------------------------------------------------
\* the sentinel was put on tts_queue (line 942) and the worker took it
SentinelTaken == \E i \in DOMAIN taken : IsSentinel(taken[i])

\* C38 (as claimed): whenever the dispatcher stops running, whether by
\* shutdown() or by the user's exit/quit/goodbye command followed by
\* shutdown(), the shutdown sentinel is eventually enqueued and the speech
\* worker eventually exits.
C38_StopEndsWorker ==
    (shutdown_pc # "NotCalled") ~> (SentinelTaken /\ worker_pc = "Finished")

\* ------------------------------------------------------------------------
\* knowledge_base: skill reliability metrics (src/knowledge_base.py:25-33,
\* 84-124, 144-179)
\* ------------------------------------------------------------------------
MaxMetricCalls == 4
\* calls on the skill_usage_metrics table per behaviour

MetricSkills == {"get_time", "web_search"}

\* everything but the skill_usage_metrics table
notMetrics == <<trackerVars, adapterVars, registryVars, quotaVars, dispatchVars, confirmVars,
                speechVars, wakeVars, kbVars, emotionVars, voiceVars, raceVars, provVars>>

\* the rows WHERE skill_name = ?
MetricRows(table, skill_name) == {row \in table : row.skill_name = skill_name}

\* lines 104-112: INSERT ... VALUES (?, 1, ?, ?, ?) ON CONFLICT(skill_name) DO
\* UPDATE SET usage_count = usage_count + 1, success_count = success_count +
\* excluded.success_count, failure_count = failure_count + excluded.failure_count
InvocationUpsert(table, skill_name, success) ==
    LET s == IF success THEN 1 ELSE 0
        f == IF ~success THEN 1 ELSE 0
    IN  IF MetricRows(table, skill_name) = {}
        THEN table \cup {[skill_name |-> skill_name, usage_count |-> 1,
                          success_count |-> s, failure_count |-> f]}
        ELSE {IF row.skill_name = skill_name
              THEN [row EXCEPT !.usage_count = @ + 1, !.success_count = @ + s,
                               !.failure_count = @ + f]
              ELSE row : row \in table}

\* lines 153-157 and 170-174: the two UPDATE statements of record_user_feedback;
\* CASE WHEN count > 0 THEN count - 1 ELSE 0 END on the other count
FeedbackUpdate(table, skill_name, was_correct_according_to_user) ==
    {IF row.skill_name # skill_name THEN row
     ELSE IF ~was_correct_according_to_user
     THEN [row EXCEPT !.failure_count = @ + 1,
                      !.success_count = IF @ > 0 THEN @ - 1 ELSE 0]
     ELSE [row EXCEPT !.success_count = @ + 1,
                      !.failure_count = IF @ > 0 THEN @ - 1 ELSE 0]
     : row \in table}

\* record_skill_invocation(skill_name, success), lines 84-124; a sqlite3.Error
\* is logged and the table left as it was
RecordSkillInvocation(skill_name, success, db_ok) ==
    /\ metric_calls < MaxMetricCalls
    /\ metric_calls' = metric_calls + 1
    /\ skill_usage_metrics' = IF db_ok
                              THEN InvocationUpsert(skill_usage_metrics, skill_name, success)
                              ELSE skill_usage_metrics
    /\ UNCHANGED <<now, notMetrics>>

\* record_user_feedback(skill_name, was_correct_according_to_user), lines 144-179
RecordUserFeedback(skill_name, was_correct_according_to_user, db_ok) ==
    /\ metric_calls < MaxMetricCalls
    /\ metric_calls' = metric_calls + 1
    /\ skill_usage_metrics' =
          IF db_ok
          THEN FeedbackUpdate(skill_usage_metrics, skill_name, was_correct_according_to_user)
          ELSE skill_usage_metrics
    /\ UNCHANGED <<now, notMetrics>>

InitMetrics ==
    /\ now = 0
    /\ ProgramIdle
    /\ OthersIdle

MetricsNext ==
    \/ \E skill_name \in MetricSkills, success \in BOOLEAN, db_ok \in BOOLEAN :
          RecordSkillInvocation(skill_name, success, db_ok)
    \/ \E skill_name \in MetricSkills, was_correct \in BOOLEAN, db_ok \in BOOLEAN :
          RecordUserFeedback(skill_name, was_correct, db_ok)

SpecMetrics == InitMetrics /\ [][MetricsNext]_vars

\* ------------------------------------------------------------------------
\* C39: consistency of the skill metrics
\* ------------------------------------------------------------------------
\* C39 (as claimed): for every skill, usage_count = success_count +
\* failure_count and both counts are >= 0, after any sequence of
\* record_skill_invocation and record_user_feedback calls.
C39_MetricsConsistent ==
    \A row \in skill_usage_metrics :
       /\ row.usage_count = row.success_count + row.failure_count
       /\ row.success_count >= 0
       /\ row.failure_count >= 0

====
